---- MODULE Spec2Model ----
(***************************************************************************)
(* Model of the prisoner crate: the payoff model (Weights), the strategy   *)
(* catalogue (PlayerFactory / Player), the match engine (play) and the     *)
(* rating pool (EloPool), all of src/src/lib.rs.                           *)
(*                                                                         *)
(* The random stream is modelled by nondeterministic choice: every draw    *)
(* may return any value of its range.  usize and isize have the 64 bits of *)
(* the build and f64 is computed bit for bit: the integers of the program  *)
(* are exact values written in limbs, the floating point values are        *)
(* mantissa and exponent, rounded as IEEE 754 rounds.  An integer overflow *)
(* panics in a build with overflow checks and wraps in a build without:    *)
(* overflow_checks says which build runs.                                  *)
(***************************************************************************)
EXTENDS Integers, Sequences, FiniteSets, TLC

VARIABLES
    overflow_checks, \* the build: TRUE panics on integer overflow, FALSE wraps
    players,     \* EloPool.players: sequence of [factory, rating]
    weights,     \* EloPool.weights
    turn_distr,  \* EloPool.turn_distr: Uniform [low, high)
    scale,       \* EloPool.scale
    k_factor,    \* EloPool.k_factor
    pc,          \* position inside EloPool::play / play
    steps,       \* number of completed calls of EloPool::play
    i1, i2,      \* the two indices drawn by EloPool::play (0-based)
    f1, f2,      \* the PlayerFactory arguments of play
    turns,       \* the turns argument of play
    p1, p2,      \* the two Player values of the running match
    hist,        \* the pair of move histories of the running match
    points,      \* the accumulated point differential of the running match
    outcome      \* the value returned by play

vars == <<overflow_checks, players, weights, turn_distr, scale, k_factor, pc,
          steps, i1, i2, f1, f2, turns, p1, p2, hist, points, outcome>>

poolVars == <<overflow_checks, players, weights, turn_distr, scale, k_factor>>
matchVars == <<f1, f2, turns, p1, p2, hist, points, outcome>>

(***************************************************************************)
(* Bounds of the model.                                                    *)
(***************************************************************************)
\* turn range of the pool's matches (min_turns, max_turns of the config)
MinTurns == 1
MaxTurns == 2
\* number of calls of EloPool::play that are explored
MaxSteps == 2
\* largest of the small payoffs of the Weights drawn for a stand-alone match
MaxWeight == 1
\* largest turn count of a stand-alone match
MatchMaxTurns == 3
\* a starting rating below the k-factor
StartLow == 20

(***************************************************************************)
(* Program constants.                                                      *)
(***************************************************************************)
\* Args.starting_pts / EloPoolConfig::default().starting_pts
StartingPts == 700
\* Args.scale / EloPoolConfig::default().scale
Scale == 100
\* Args.k_factor (the command line default)
KFactor == 32

\* width of usize and isize
Bits == 64
\* significant bits of an f64, and the exponents of its smallest and of its
\* largest value: the least value is 2^MinExp, every value is below 2^MaxExp
MantBits == 53
MinExp == -1074
MaxExp == 1024
\* bits of one limb of an integer of the model
LimbBits == 15

(***************************************************************************)
(* Integers of the width of the build.  A TLC integer has 32 bits, usize   *)
(* and isize have Bits; a Rust integer is modelled by its exact value, a   *)
(* sign and a magnitude written in limbs of LimbBits bits, least           *)
(* significant limb first, without leading zero limbs.                     *)
(*                                                                         *)
(* A call of the program evaluates its arguments once, before the body     *)
(* runs.  TLC evaluates an argument of an operator where the body uses it, *)
(* and again at every use when it decides whether an action is enabled.    *)
(* Val(x, [v \in Any |-> e]) is e with v the value of x, evaluated once,   *)
(* as the call by value of the program does; every value is in Any.        *)
(***************************************************************************)
Val(x, f) == f[x]

Limb == 2^LimbBits

Max2(a, b) == IF a >= b THEN a ELSE b
Min2(a, b) == IF a <= b THEN a ELSE b

\* limb i of a, 0 above its last limb
BLimb(a, i) == IF i <= Len(a) THEN a[i] ELSE 0

\* the limbs 1 .. n of a without the zero limbs at their end
RECURSIVE BNormTo(_, _)
BNormTo(a, n) ==
    IF n = 0 THEN <<>>
    ELSE IF a[n] = 0 THEN BNormTo(a, n - 1)
    ELSE SubSeq(a, 1, n)

BNorm(a0) ==
    Val(a0, [a \in Any |->
        IF a = <<>> \/ a[Len(a)] # 0 THEN a ELSE BNormTo(a, Len(a) - 1)])

RECURSIVE BFromNat(_)
BFromNat(n) == IF n = 0 THEN <<>> ELSE <<n % Limb>> \o BFromNat(n \div Limb)

RECURSIVE BToNatFrom(_, _)
BToNatFrom(a, i) ==
    IF i > Len(a) THEN 0 ELSE a[i] + Limb * BToNatFrom(a, i + 1)

BToNat(a0) == Val(a0, [a \in Any |-> BToNatFrom(a, 1)])

RECURSIVE BCmpFrom(_, _, _)
BCmpFrom(a, b, i) ==
    IF i = 0 THEN 0
    ELSE IF a[i] < b[i] THEN -1
    ELSE IF a[i] > b[i] THEN 1
    ELSE BCmpFrom(a, b, i - 1)

\* -1, 0 or 1 as a < b, a = b or a > b
BCmp(a, b) ==
    IF Len(a) < Len(b) THEN -1
    ELSE IF Len(a) > Len(b) THEN 1
    ELSE BCmpFrom(a, b, Len(a))

\* the limbs i .. of a + b with the carry c into limb i
RECURSIVE BAddC(_, _, _, _)
BAddC(a, b, i, c) ==
    IF i > Len(a) /\ i > Len(b) THEN (IF c = 0 THEN <<>> ELSE <<c>>)
    ELSE LET x == BLimb(a, i) + BLimb(b, i) + c
         IN  <<x % Limb>> \o BAddC(a, b, i + 1, x \div Limb)

BAdd(a, b) == BAddC(a, b, 1, 0)

\* the limbs i .. of a - b with the borrow out of limb i
RECURSIVE BSubB(_, _, _, _)
BSubB(a, b, i, borrow) ==
    IF i > Len(a) THEN <<>>
    ELSE LET x == a[i] - BLimb(b, i) - borrow
         IN  <<IF x < 0 THEN x + Limb ELSE x>>
                \o BSubB(a, b, i + 1, IF x < 0 THEN 1 ELSE 0)

\* a - b for a >= b
BSub(a, b) == BNorm(BSubB(a, b, 1, 0))

\* the limbs i .. of a * m with the carry c into limb i
RECURSIVE BMulC(_, _, _, _)
BMulC(a, m, i, c) ==
    IF i > Len(a) THEN BFromNat(c)
    ELSE LET x == a[i] * m + c
         IN  <<x % Limb>> \o BMulC(a, m, i + 1, x \div Limb)

\* a * m for a limb m
BMulSmall(a, m) == IF m = 0 THEN <<>> ELSE BMulC(a, m, 1, 0)

\* a times the limbs j .. of b
RECURSIVE BMulFrom(_, _, _)
BMulFrom(a, b, j) ==
    IF j = Len(b) THEN BMulSmall(a, b[j])
    ELSE Val(BMulFrom(a, b, j + 1), [high \in Any |->
             BAdd(BMulSmall(a, b[j]),
                  IF high = <<>> THEN high ELSE <<0>> \o high)])

BMul(a0, b0) ==
    Val(<<a0, b0>>, [a \in Any, b \in Any |->
        IF a = <<>> \/ b = <<>> THEN <<>>
        ELSE IF Len(a) < Len(b) THEN BMulFrom(b, a, 1)
        ELSE BMulFrom(a, b, 1)])

\* a * 2^n
BShl(a, n) ==
    IF a = <<>> \/ n = 0 THEN a
    ELSE [i \in 1 .. (n \div LimbBits) |-> 0] \o BMulSmall(a, 2^(n % LimbBits))

\* the limbs 1 .. i of a under the remainder r of the limbs above them,
\* divided by d, q holding the quotient of the limbs above
RECURSIVE BDivSFrom(_, _, _, _, _)
BDivSFrom(a, d, i, r, q) ==
    IF i = 0 THEN [q |-> q, r |-> r]
    ELSE LET x == r * Limb + a[i]
         IN  BDivSFrom(a, d, i - 1, x % d, <<x \div d>> \o q)

\* quotient (limbs, not normalised) and remainder of a by a limb d > 0
BDivS(a, d) == BDivSFrom(a, d, Len(a), 0, <<>>)

\* a \div 2^n
BShr(a, n) ==
    IF n = 0 THEN a
    ELSE IF n \div LimbBits >= Len(a) THEN <<>>
    ELSE BNorm(BDivS(SubSeq(a, n \div LimbBits + 1, Len(a)),
                     2^(n % LimbBits)).q)

\* the number of bits of n
RECURSIVE IntBitLen(_)
IntBitLen(n) ==
    IF n >= 256 THEN 8 + IntBitLen(n \div 256)
    ELSE IF n >= 16 THEN 4 + IntBitLen(n \div 16)
    ELSE IF n >= 4 THEN 2 + IntBitLen(n \div 4)
    ELSE IF n >= 2 THEN 2
    ELSE n

\* the number of bits of a
BBitLen(a) ==
    IF a = <<>> THEN 0 ELSE LimbBits * (Len(a) - 1) + IntBitLen(a[Len(a)])

\* bit i of a, bit 0 the least significant
BBit(a, i) ==
    IF i \div LimbBits >= Len(a) THEN 0
    ELSE (a[i \div LimbBits + 1] \div 2^(i % LimbBits)) % 2

\* a % 2^n
BLowBits(a0, n0) ==
    Val(<<a0, n0>>, [a \in Any, n \in Any |->
        IF n \div LimbBits >= Len(a) THEN a
        ELSE BNorm(SubSeq(a, 1, n \div LimbBits)
                   \o <<a[n \div LimbBits + 1] % 2^(n % LimbBits)>>)])

\* the number of trailing zero bits of n # 0
RECURSIVE IntTz(_)
IntTz(n) ==
    IF n % 256 = 0 THEN 8 + IntTz(n \div 256)
    ELSE IF n % 16 = 0 THEN 4 + IntTz(n \div 16)
    ELSE IF n % 4 = 0 THEN 2 + IntTz(n \div 4)
    ELSE IF n % 2 = 0 THEN 1
    ELSE 0

\* the number of trailing zero bits of the limbs i .. of a, not all zero
RECURSIVE BTzFrom(_, _)
BTzFrom(a, i) ==
    IF a[i] = 0 THEN LimbBits + BTzFrom(a, i + 1) ELSE IntTz(a[i])

\* the number of trailing zero bits of a # 0
BTz(a) == BTzFrom(a, 1)

\* a digit that is at least the quotient of rem by b and at most 2 more,
\* from the two top limbs of rem and the top limb of b, for rem < b * Limb
\* and a top limb of b of at least Limb / 2
BQEst(rem, b) ==
    Min2((BLimb(rem, Len(b) + 1) * Limb + BLimb(rem, Len(b))) \div b[Len(b)],
         Limb - 1)

\* the largest digit of 0 .. d whose product by b is at most rem
RECURSIVE BQDigit(_, _, _)
BQDigit(rem, b, d0) ==
    Val(<<d0, BMulSmall(b, d0)>>, [d \in Any, p \in Any |->
        IF BCmp(p, rem) <= 0 THEN d ELSE BQDigit(rem, b, d - 1)])

\* quotient and remainder of the limbs i .. Len(a) of a by b, limb by limb,
\* for a top limb of b of at least Limb / 2; fewer limbs than b has are less
\* than b
RECURSIVE BDivLong(_, _, _)
BDivLong(a0, b0, i0) ==
    Val(<<a0, b0, i0>>, [a \in Any, b \in Any, i \in Any |->
        IF Len(a) - i + 1 < Len(b)
        THEN [q |-> <<>>, r |-> BNorm(SubSeq(a, i, Len(a)))]
        ELSE Val(BDivLong(a, b, i + 1), [high \in Any |->
                 IF high.r = <<>> /\ a[i] = 0
                 THEN [q |-> IF high.q = <<>> THEN <<>> ELSE <<0>> \o high.q,
                       r |-> <<>>]
                 ELSE LET rem == <<a[i]>> \o high.r
                      IN  Val(BQDigit(rem, b, BQEst(rem, b)), [d \in Any |->
                              [q |-> BNorm(<<d>> \o high.q),
                               r |-> IF d = 0 THEN rem
                                     ELSE BSub(rem, BMulSmall(b, d))]])])])

\* quotient and remainder of a by b > 0: by the limb of b, or with both
\* shifted left until the top limb of b is at least Limb / 2
BDivMod(a0, b0) ==
    Val(<<a0, b0>>, [a \in Any, b \in Any |->
        IF Len(b) = 1
        THEN Val(BDivS(a, b[1]), [s \in Any |->
                 [q |-> BNorm(s.q), r |-> BFromNat(s.r)]])
        ELSE LET k == LimbBits - IntBitLen(b[Len(b)])
             IN  Val(BDivLong(BShl(a, k), BShl(b, k), 1), [s \in Any |->
                     [q |-> s.q, r |-> BShr(s.r, k)]])])

\* a Rust integer: its exact value
Z(neg, mag) == [neg |-> neg /\ mag # <<>>, mag |-> mag]

\* the integer n of the model as a Rust integer, and back
I(n) == Z(n < 0, BFromNat(IF n < 0 THEN -n ELSE n))
ZToInt(z0) ==
    Val(z0, [z \in Any |-> IF z.neg THEN -BToNat(z.mag) ELSE BToNat(z.mag)])

ZNeg(z) == Z(~z.neg, z.mag)

ZAdd(a0, b0) ==
    Val(<<a0, b0>>, [a \in Any, b \in Any |->
        IF a.neg = b.neg THEN Z(a.neg, BAdd(a.mag, b.mag))
        ELSE IF BCmp(a.mag, b.mag) >= 0 THEN Z(a.neg, BSub(a.mag, b.mag))
        ELSE Z(b.neg, BSub(b.mag, a.mag))])

ZSub(a, b) == ZAdd(a, ZNeg(b))

ZMul(a0, b0) ==
    Val(<<a0, b0>>, [a \in Any, b \in Any |-> Z(a.neg # b.neg, BMul(a.mag, b.mag))])

\* -1, 0 or 1 as a < b, a = b or a > b
ZCmp(a, b) ==
    IF a.neg # b.neg THEN (IF a.neg THEN -1 ELSE 1)
    ELSE IF a.neg THEN BCmp(b.mag, a.mag)
    ELSE BCmp(a.mag, b.mag)

ZLe(a, b) == ZCmp(a, b) <= 0
ZLt(a, b) == ZCmp(a, b) < 0

ZClamp(x0, lo0, hi0) ==
    Val(<<x0, lo0, hi0>>, [x \in Any, lo \in Any, hi \in Any |->
        IF ZLt(x, lo) THEN lo ELSE IF ZLt(hi, x) THEN hi ELSE x])

\* 2^n
ZPow2(n) == Z(FALSE, BShl(<<1>>, n))

\* usize::MAX, isize::MAX, isize::MIN
UsizeMax == ZSub(ZPow2(Bits), I(1))
IsizeMax == ZSub(ZPow2(Bits - 1), I(1))
IsizeMin == ZNeg(ZPow2(Bits - 1))

\* the value of the low Bits bits: an exact result wrapped into usize
WrapUsize(z0) ==
    Val(z0, [z \in Any |->
        Val(BLowBits(z.mag, Bits), [low \in Any |->
            IF z.neg /\ low # <<>> THEN ZSub(ZPow2(Bits), Z(FALSE, low))
            ELSE Z(FALSE, low)])])

\* an exact result wrapped into isize (two's complement); `as isize`
WrapIsize(z) ==
    Val(WrapUsize(z), [u \in Any |->
        IF ZLe(u, IsizeMax) THEN u ELSE ZSub(u, ZPow2(Bits))])

(***************************************************************************)
(* f64.  A finite value is (-1)^neg * m * 2^e with m odd (m = 0 and e = 0  *)
(* for the two zeros); every operation rounds its exact result to the      *)
(* nearest value of MantBits significant bits, ties to even, as IEEE 754   *)
(* does.                                                                   *)
(***************************************************************************)
Fin(neg, m, e) == [kind |-> "fin", neg |-> neg, m |-> m, e |-> e]
NaN == [kind |-> "nan", neg |-> FALSE, m |-> <<>>, e |-> 0]
Inf(neg) == [kind |-> "inf", neg |-> neg, m |-> <<>>, e |-> 0]
FZero(neg) == Fin(neg, <<>>, 0)
FOne(neg) == Fin(neg, <<1>>, 0)

IsZero(a) == a.kind = "fin" /\ a.m = <<>>

\* m * 2^e with the trailing zero bits of m moved into the exponent
Canon(neg, m, e) ==
    IF m = <<>> THEN FZero(neg)
    ELSE LET tz == BTz(m)
         IN  IF tz = 0 THEN Fin(neg, m, e) ELSE Fin(neg, BShr(m, tz), e + tz)

\* the f64 nearest to (-1)^neg * (m + s) * 2^e, where 0 < s < 1 if sticky
\* and s = 0 otherwise (sticky only with m of more than MantBits + 1 bits)
RoundF(neg, m0, e, sticky) ==
    Val(m0, [m \in Any |->
        IF m = <<>> THEN FZero(neg)
        ELSE LET len == BBitLen(m)
                 d == Max2(len - MantBits, MinExp - e)
             IN  IF d <= 0
                 THEN (IF len + e > MaxExp THEN Inf(neg) ELSE Canon(neg, m, e))
                 ELSE Val(BShr(m, d), [q \in Any |->
                      LET half == BBit(m, d - 1) = 1
                          rest == sticky \/ BLowBits(m, d - 1) # <<>>
                          odd == BBit(q, 0) = 1
                          r == IF half /\ (rest \/ odd) THEN BAdd(q, <<1>>)
                               ELSE q
                      IN  IF BBitLen(r) + e + d > MaxExp THEN Inf(neg)
                          ELSE Canon(neg, r, e + d)])])

\* `as f64` of an integer
FromZ(z0) == Val(z0, [z \in Any |-> RoundF(z.neg, z.mag, 0, FALSE)])

\* the integer n of the model as an f64
F(n) == FromZ(I(n))

FNeg(a0) ==
    Val(a0, [a \in Any |->
        IF a.kind = "nan" THEN a ELSE [a EXCEPT !.neg = ~a.neg]])

\* a * b
FMul(a0, b0) ==
    Val(<<a0, b0>>, [a \in Any, b \in Any |->
        IF a.kind = "nan" \/ b.kind = "nan" THEN NaN
        ELSE IF a.kind = "inf" \/ b.kind = "inf"
        THEN (IF IsZero(a) \/ IsZero(b) THEN NaN ELSE Inf(a.neg # b.neg))
        ELSE RoundF(a.neg # b.neg, BMul(a.m, b.m), a.e + b.e, FALSE)])

\* a / b
FDiv(a0, b0) ==
    Val(<<a0, b0>>, [a \in Any, b \in Any |->
        IF a.kind = "nan" \/ b.kind = "nan" THEN NaN
        ELSE IF a.kind = "inf"
        THEN (IF b.kind = "inf" THEN NaN ELSE Inf(a.neg # b.neg))
        ELSE IF b.kind = "inf" THEN FZero(a.neg # b.neg)
        ELSE IF IsZero(b)
        THEN (IF IsZero(a) THEN NaN ELSE Inf(a.neg # b.neg))
        ELSE IF IsZero(a) THEN FZero(a.neg # b.neg)
        ELSE Val(Max2(0, MantBits + 3 + BBitLen(b.m) - BBitLen(a.m)), [s \in Any |->
                 Val(BDivMod(BShl(a.m, s), b.m), [dm \in Any |->
                     RoundF(a.neg # b.neg, dm.q, a.e - b.e - s, dm.r # <<>>)])])])

\* x + y where |y| is below a quarter of the last bit of x
FAddTiny(x0, y0) ==
    Val(<<x0, y0>>, [x \in Any, y \in Any |->
        Val(MantBits + 3 - BBitLen(x.m), [sh \in Any |->
            Val(BShl(x.m, sh), [m \in Any |->
                RoundF(x.neg, IF x.neg = y.neg THEN m ELSE BSub(m, <<1>>),
                       x.e - sh, TRUE)])])])

\* a + b
FAdd(a0, b0) ==
    Val(<<a0, b0>>, [a \in Any, b \in Any |->
        IF a.kind = "nan" \/ b.kind = "nan" THEN NaN
        ELSE IF a.kind = "inf"
        THEN (IF b.kind = "inf" /\ a.neg # b.neg THEN NaN ELSE a)
        ELSE IF b.kind = "inf" THEN b
        ELSE IF IsZero(a) THEN (IF IsZero(b) THEN FZero(a.neg /\ b.neg) ELSE b)
        ELSE IF IsZero(b) THEN a
        ELSE Val(<<a.e + BBitLen(a.m), b.e + BBitLen(b.m)>>, [ta \in Any, tb \in Any |->
                 IF ta - tb > MantBits + 7 \/ tb - ta > MantBits + 7
                 THEN FAddTiny(IF ta > tb THEN a ELSE b, IF ta > tb THEN b ELSE a)
                 ELSE LET e0 == Min2(a.e, b.e)
                      IN  Val(<<BShl(a.m, a.e - e0), BShl(b.m, b.e - e0)>>,
                              [ma \in Any, mb \in Any |->
                              Val(IF a.neg = b.neg THEN 1 ELSE BCmp(ma, mb), [c \in Any |->
                                  IF c = 0 THEN FZero(FALSE)
                                  ELSE RoundF(IF c > 0 THEN a.neg ELSE b.neg,
                                              IF a.neg = b.neg THEN BAdd(ma, mb)
                                              ELSE BSub(IF c > 0 THEN ma ELSE mb,
                                                        IF c > 0 THEN mb ELSE ma),
                                              e0, FALSE)])])])])

\* a - b
FSub(a, b) == FAdd(a, FNeg(b))

\* x + y as an argument of RoundF, where |y| is below the last bit of x
\* shifted two places down
FFmaFar(x0, yneg) ==
    Val(x0, [x \in Any |->
        Val(Max2(MantBits + 3 - BBitLen(x.m), 2), [sh \in Any |->
            Val(BShl(x.m, sh), [m \in Any |->
                [neg |-> x.neg,
                 m |-> IF x.neg = yneg THEN m ELSE BSub(m, <<1>>),
                 e |-> x.e - sh, sticky |-> TRUE]])])])

\* p + c as an argument of RoundF, for the exact product p # 0 and a finite c
FFmaSum(p0, c0) ==
    Val(<<p0, c0>>, [p \in Any, c \in Any |->
        IF IsZero(c) THEN [neg |-> p.neg, m |-> p.m, e |-> p.e, sticky |-> FALSE]
        ELSE Val(<<p.e + BBitLen(p.m), c.e + BBitLen(c.m)>>, [tp \in Any, tc \in Any |->
                 IF tc - tp > MantBits + 7 THEN FFmaFar(c, p.neg)
                 ELSE IF tp - tc > 2 * MantBits + 7 THEN FFmaFar(p, c.neg)
                 ELSE LET e0 == Min2(p.e, c.e)
                      IN  Val(<<BShl(p.m, p.e - e0), BShl(c.m, c.e - e0)>>,
                              [mp \in Any, mc \in Any |->
                              Val(IF p.neg = c.neg THEN 1 ELSE BCmp(mp, mc), [o \in Any |->
                                  [neg |-> IF o = 0 THEN FALSE
                                           ELSE IF o > 0 THEN p.neg ELSE c.neg,
                                   m |-> IF p.neg = c.neg THEN BAdd(mp, mc)
                                         ELSE IF o = 0 THEN <<>>
                                         ELSE BSub(IF o > 0 THEN mp ELSE mc,
                                                   IF o > 0 THEN mc ELSE mp),
                                   e |-> e0, sticky |-> FALSE]])])])])

\* a * b + c with one rounding, the fused multiply-add of the processor
FFma(a0, b0, c0) ==
    Val(<<a0, b0, c0>>, [a \in Any, b \in Any, c \in Any |->
        IF a.kind = "nan" \/ b.kind = "nan" \/ c.kind = "nan" THEN NaN
        ELSE IF a.kind = "inf" \/ b.kind = "inf"
        THEN (IF IsZero(a) \/ IsZero(b)
                 \/ (c.kind = "inf" /\ c.neg # (a.neg # b.neg))
              THEN NaN ELSE Inf(a.neg # b.neg))
        ELSE IF c.kind = "inf" THEN c
        ELSE IF IsZero(a) \/ IsZero(b)
        THEN (IF IsZero(c) THEN FZero((a.neg # b.neg) /\ c.neg) ELSE c)
        ELSE Val(FFmaSum(Canon(a.neg # b.neg, BMul(a.m, b.m), a.e + b.e), c), [s \in Any |->
                 RoundF(s.neg, s.m, s.e, s.sticky)])])

\* |a|
FAbs(a0) ==
    Val(a0, [a \in Any |->
        IF a.kind = "nan" THEN a ELSE [a EXCEPT !.neg = FALSE]])

\* |a| < |b|, for finite a and b
FAbsLt(a0, b0) ==
    Val(<<a0, b0>>, [a \in Any, b \in Any |->
        IF IsZero(b) THEN FALSE
        ELSE IF IsZero(a) THEN TRUE
        ELSE Val(<<a.e + BBitLen(a.m), b.e + BBitLen(b.m)>>, [ta \in Any, tb \in Any |->
                 IF ta # tb THEN ta < tb
                 ELSE LET e0 == Min2(a.e, b.e)
                      IN  BCmp(BShl(a.m, a.e - e0), BShl(b.m, b.e - e0)) < 0])])

\* the integer part of |a| for a finite a whose integer part is below
\* 2^(Bits + 1)
FTrunc(a0) ==
    Val(a0, [a \in Any |->
        IF a.e >= 0 THEN BShl(a.m, a.e) ELSE BShr(a.m, -a.e)])

\* `as isize` of an f64: NaN is 0, the fraction is dropped, values out of
\* range saturate
ToIsize(a0) ==
    Val(a0, [a \in Any |->
        IF a.kind = "nan" THEN I(0)
        ELSE IF a.kind = "inf" \/ a.e + BBitLen(a.m) > Bits
        THEN (IF a.neg THEN IsizeMin ELSE IsizeMax)
        ELSE ZClamp(Z(a.neg, FTrunc(a)), IsizeMin, IsizeMax)])

\* f64::tanh at the arguments h / 100, h = 1 .. TanhOne - 1, as computed by the
\* libm of the build (the values of F64Tanh there, kept as a table):
\* <<e, limbs of m>> of the value m * 2^e
TanhTable ==
   <<
      <<-58, 11439, 2788, 30057, 81>>, <<-55, 18403, 5761, 15639, 20>>, <<-58, 111, 20654, 22488, 245>>,
      <<-56, 17287, 26866, 28715, 81>>, <<-57, 30457, 19051, 20627, 204>>, <<-56, 23411, 31113, 24010, 122>>,
      <<-52, 17989, 21931, 30978, 8>>, <<-56, 23743, 3880, 16101, 163>>, <<-56, 27383, 31769, 26998, 183>>,
      <<-55, 8349, 31071, 1966, 102>>, <<-56, 7591, 15652, 12312, 224>>, <<-54, 7093, 19130, 4809, 61>>,
      <<-55, 16589, 3803, 12292, 132>>, <<-54, 3143, 1377, 7056, 71>>, <<-55, 21589, 24134, 15016, 152>>,
      <<-55, 12149, 14724, 14944, 162>>, <<-53, 367, 19282, 3458, 43>>, <<-55, 14709, 12443, 11626, 182>>,
      <<-55, 213, 9767, 8261, 192>>, <<-51, 14937, 1558, 20710, 12>>, <<-53, 5173, 27373, 32224, 52>>,
      <<-55, 3415, 18715, 23412, 221>>, <<-54, 23735, 16000, 23806, 115>>, <<-52, 22131, 25043, 4700, 30>>,
      <<-54, 3651, 9882, 13053, 125>>, <<-52, 25429, 25220, 18016, 32>>, <<-52, 17295, 23000, 24378, 33>>,
      <<-54, 5087, 15863, 23835, 139>>, <<-52, 10921, 5679, 3711, 36>>, <<-53, 2685, 10201, 18875, 74>>,
      <<-54, 18243, 2400, 26994, 153>>, <<-50, 31177, 17347, 29629, 9>>, <<-54, 13791, 28658, 2707, 163>>,
      <<-54, 32169, 32368, 21902, 167>>, <<-53, 10475, 19078, 3674, 86>>, <<-54, 24023, 13661, 24562, 176>>,
      <<-50, 4967, 7009, 10739, 11>>, <<-54, 20541, 17313, 23141, 185>>, <<-53, 30845, 12400, 2235, 95>>,
      <<-53, 8555, 29634, 8746, 97>>, <<-51, 22255, 8462, 28254, 24>>, <<-54, 28405, 19487, 7483, 203>>,
      <<-52, 5939, 25766, 28872, 51>>, <<-54, 27403, 5038, 25754, 211>>, <<-53, 28765, 12144, 201, 108>>,
      <<-54, 22081, 23359, 6655, 220>>, <<-53, 17239, 9109, 5866, 112>>, <<-52, 5221, 11778, 3905, 57>>,
      <<-51, 26785, 29498, 2288, 29>>, <<-54, 2803, 11949, 19791, 236>>, <<-53, 3115, 1813, 10026, 120>>,
      <<-54, 3, 9416, 19084, 244>>, <<-50, 31951, 31537, 17438, 15>>, <<-54, 19109, 19736, 13429, 252>>,
      <<-53, 4611, 27779, 4363, 128>>, <<-53, 24901, 18265, 1383, 130>>, <<-51, 23329, 24267, 32210, 32>>,
      <<-52, 407, 23016, 29529, 66>>, <<-53, 32327, 17447, 21406, 135>>, <<-51, 13119, 18793, 12162, 34>>,
      <<-52, 6219, 15310, 21242, 69>>, <<-53, 24213, 32414, 2908, 141>>, <<-53, 16103, 9170, 28225, 142>>,
      <<-53, 31845, 29759, 20128, 144>>, <<-53, 7357, 8220, 11387, 146>>, <<-52, 10845, 32007, 999, 74>>,
      <<-52, 9847, 15161, 28751, 74>>, <<-51, 8831, 2725, 28090, 37>>, <<-53, 10975, 19439, 2732, 153>>,
      <<-52, 5961, 6063, 11766, 77>>, <<-53, 29005, 18519, 10920, 156>>, <<-53, 4253, 10269, 30434, 157>>,
      <<-53, 25635, 31979, 16538, 159>>, <<-52, 23513, 2198, 17386, 80>>, <<-50, 24133, 31060, 10641, 20>>,
      <<-49, 1327, 31386, 8428, 10>>, <<-50, 24023, 22787, 22994, 20>>, <<-51, 25761, 5695, 25337, 41>>,
      <<-53, 12985, 10036, 18111, 168>>, <<-52, 17697, 2676, 32660, 84>>, <<-53, 3187, 6834, 13602, 171>>,
      <<-53, 19155, 18108, 26800, 172>>, <<-53, 28215, 15357, 6614, 174>>, <<-50, 19501, 30252, 30994, 21>>,
      <<-49, 25755, 14096, 1871, 11>>, <<-53, 26727, 22385, 7928, 178>>, <<-51, 8113, 5290, 29096, 44>>,
      <<-50, 31109, 11314, 19838, 22>>, <<-51, 28489, 25803, 17340, 45>>, <<-53, 24669, 1452, 12198, 183>>,
      <<-53, 13503, 26070, 19983, 184>>, <<-53, 25421, 28225, 27188, 185>>, <<-53, 29991, 26264, 1049, 187>>,
      <<-52, 2725, 20850, 3553, 94>>, <<-51, 23299, 16565, 11341, 47>>, <<-51, 26697, 23623, 20765, 47>>,
      <<-52, 2023, 12637, 27333, 95>>, <<-53, 14151, 22089, 25718, 192>>, <<-48, 15239, 32411, 1929, 6>>,
      <<-51, 15589, 23178, 24314, 48>>, <<-53, 11273, 12857, 1149, 196>>, <<-53, 28389, 19072, 2812, 197>>,
      <<-53, 2611, 22642, 3949, 198>>, <<-53, 14795, 1913, 4566, 199>>, <<-49, 30745, 22662, 16675, 12>>,
      <<-53, 28579, 4362, 4258, 201>>, <<-52, 25555, 11694, 1672, 101>>, <<-53, 6009, 9548, 1932, 203>>,
      <<-53, 13575, 12304, 26, 204>>, <<-53, 9221, 16316, 30400, 204>>, <<-51, 14451, 1712, 15073, 51>>,
      <<-52, 2675, 17599, 12085, 103>>, <<-53, 7463, 21961, 20346, 207>>, <<-53, 207, 19080, 16056, 208>>,
      <<-52, 22827, 6561, 22037, 104>>, <<-53, 10859, 23490, 6101, 210>>, <<-50, 31259, 500, 12344, 26>>,
      <<-49, 6893, 31137, 7838, 13>>, <<-52, 29269, 8867, 10292, 106>>, <<-53, 23727, 23121, 13617, 213>>,
      <<-53, 13403, 8372, 6224, 214>>, <<-51, 5443, 14214, 24178, 53>>, <<-52, 23159, 27391, 27857, 107>>,
      <<-51, 28201, 29277, 3576, 54>>, <<-52, 5879, 15211, 19015, 108>>, <<-52, 11195, 19642, 30677, 108>>,
      <<-52, 16591, 29878, 9374, 109>>, <<-51, 17931, 1751, 26707, 54>>, <<-51, 3353, 30732, 32246, 54>>,
      <<-52, 19869, 29294, 9848, 110>>, <<-52, 4473, 26909, 20553, 110>>, <<-51, 24045, 21297, 15537, 55>>,
      <<-53, 13925, 29820, 17295, 222>>, <<-49, 1361, 9802, 31023, 13>>, <<-51, 29713, 19686, 30782, 55>>,
      <<-52, 19027, 31079, 5842, 112>>, <<-51, 9991, 2972, 7743, 56>>, <<-53, 13803, 28008, 17154, 225>>,
      <<-51, 23627, 19530, 17135, 56>>, <<-50, 29731, 16051, 10854, 28>>, <<-53, 29353, 12543, 6504, 227>>,
      <<-50, 359, 2680, 15308, 28>>, <<-47, 26271, 17185, 18568, 3>>, <<-53, 13447, 29622, 25775, 228>>,
      <<-53, 21801, 13338, 9744, 229>>, <<-53, 21731, 25106, 26183, 229>>, <<-52, 15275, 10224, 4781, 115>>,
      <<-51, 2169, 12898, 22739, 57>>, <<-52, 27403, 19038, 20498, 115>>, <<-53, 30071, 28891, 23525, 231>>,
      <<-51, 4579, 1462, 1445, 58>>, <<-53, 15009, 14650, 20532, 232>>, <<-48, 18115, 11296, 9286, 7>>,
      <<-52, 13203, 3704, 24622, 116>>, <<-52, 22703, 4467, 31606, 116>>, <<-53, 27685, 11901, 11391, 234>>,
      <<-53, 14013, 20914, 24857, 234>>, <<-53, 11375, 6135, 5311, 235>>, <<-53, 677, 1586, 18292, 235>>,
      <<-49, 23251, 25003, 24467, 14>>, <<-53, 713, 19809, 10779, 236>>, <<-53, 23577, 3943, 23062, 236>>,
      <<-52, 5071, 26055, 17559, 118>>, <<-53, 27905, 26129, 14187, 237>>, <<-53, 15001, 15538, 25806, 237>>,
      <<-53, 30681, 9912, 4443, 238>>, <<-53, 6083, 29949, 15637, 238>>, <<-53, 9849, 29165, 26625, 238>>,
      <<-53, 11567, 24981, 4642, 239>>, <<-53, 26613, 423, 15228, 239>>, <<-51, 21051, 8801, 30980, 59>>,
      <<-53, 17551, 10828, 3045, 240>>, <<-53, 25341, 3799, 13052, 240>>, <<-52, 2325, 11754, 11436, 120>>,
      <<-53, 13607, 12230, 32510, 240>>, <<-53, 27825, 8983, 9200, 241>>, <<-50, 8879, 6404, 6406, 30>>,
      <<-53, 30857, 11067, 27589, 241>>, <<-53, 10891, 21189, 3758, 242>>, <<-52, 19271, 8090, 6264, 121>>,
      <<-53, 12599, 27430, 21133, 242>>, <<-53, 20827, 19301, 29577, 242>>, <<-52, 21893, 10111, 18931, 121>>,
      <<-52, 29995, 28582, 22995, 121>>, <<-51, 31425, 30721, 29875, 60>>, <<-52, 17757, 22439, 30896, 121>>,
      <<-53, 4867, 9663, 3935, 244>>, <<-52, 7285, 2878, 5734, 122>>, <<-49, 6909, 21748, 9370, 15>>,
      <<-50, 31145, 21262, 19647, 30>>, <<-49, 7103, 13139, 10268, 15>>, <<-53, 15159, 25431, 7432, 245>>,
      <<-52, 29969, 11724, 23523, 122>>, <<-52, 3489, 10443, 26881, 122>>, <<-53, 12303, 29661, 27582, 245>>,
      <<-53, 31233, 27652, 1277, 246>>, <<-50, 29689, 7126, 25528, 30>>, <<-53, 1305, 27587, 13836, 246>>,
      <<-52, 22995, 22293, 9968, 123>>, <<-51, 28917, 12045, 22864, 61>>, <<-53, 17367, 10114, 31791, 246>>,
      <<-53, 7177, 32011, 4780, 247>>, <<-53, 28469, 17731, 10428, 247>>, <<-53, 30141, 1057, 15968, 247>>,
      <<-53, 21131, 14637, 21401, 247>>, <<-52, 28773, 12232, 29749, 123>>, <<-53, 31077, 28202, 31957, 247>>,
      <<-52, 22459, 11211, 2158, 124>>, <<-53, 703, 2630, 9345, 248>>, <<-52, 943, 14403, 7138, 124>>,
      <<-53, 513, 28822, 19113, 248>>, <<-53, 30683, 27826, 23857, 248>>, <<-53, 12725, 17191, 28510, 248>>,
      <<-53, 12667, 20058, 305, 249>>, <<-52, 3283, 12911, 18774, 124>>, <<-53, 1539, 22911, 9169, 249>>,
      <<-53, 21837, 31569, 13473, 249>>, <<-52, 29073, 19168, 25231, 124>>, <<-50, 1597, 11796, 6825, 31>>,
      <<-53, 1069, 20530, 25894, 249>>, <<-53, 25909, 30012, 29875, 249>>, <<-53, 8271, 7446, 1012, 250>>,
      <<-52, 21331, 16600, 2420, 125>>, <<-50, 15465, 15157, 9266, 31>>, <<-52, 32399, 27693, 6138, 125>>,
      <<-52, 841, 5871, 7944, 125>>, <<-47, 17003, 18972, 29999, 3>>, <<-53, 26605, 3572, 22901, 250>>,
      <<-51, 10699, 14917, 22960, 62>>, <<-53, 259, 15417, 29644, 250>>, <<-49, 26095, 12929, 22537, 15>>,
      <<-47, 8359, 16682, 30260, 3>>, <<-49, 5961, 25576, 22934, 15>>, <<-53, 5245, 7183, 9595, 251>>,
      <<-52, 21103, 31811, 22694, 125>>, <<-52, 15373, 29504, 24178, 125>>, <<-45, 28789, 8693, 32200>>,
      <<-53, 24743, 13286, 21353, 251>>, <<-52, 2675, 21916, 28459, 125>>, <<-49, 25141, 30270, 24208, 15>>,
      <<-52, 12905, 12747, 31176, 125>>, <<-51, 23935, 19284, 32631, 62>>, <<-53, 8185, 16846, 2040, 252>>,
      <<-53, 11861, 8019, 4576, 252>>, <<-50, 17971, 26682, 17266, 31>>, <<-53, 12001, 8949, 9500, 252>>,
      <<-52, 7741, 7435, 5945, 126>>, <<-53, 2975, 31838, 14233, 252>>, <<-52, 12227, 28257, 8265, 126>>,
      <<-52, 14561, 9738, 9392, 126>>, <<-53, 17451, 14600, 20993, 252>>, <<-52, 12341, 18463, 11579, 126>>,
      <<-53, 1357, 15439, 25282, 252>>, <<-53, 16891, 9680, 27364, 252>>, <<-52, 16293, 22961, 14702, 126>>,
      <<-53, 30529, 18871, 31406, 252>>, <<-52, 19837, 9677, 16684, 126>>, <<-50, 15587, 17215, 20795, 31>>,
      <<-53, 9959, 5108, 4410, 253>>, <<-48, 19763, 19638, 29891, 7>>, <<-51, 29901, 32648, 10209, 63>>,
      <<-51, 4933, 10477, 10654, 63>>, <<-52, 29357, 28624, 22179, 126>>, <<-51, 25489, 534, 11517, 63>>,
      <<-53, 14833, 29356, 14974, 253>>, <<-49, 10901, 18204, 27662, 15>>, <<-53, 11047, 22336, 18226, 253>>,
      <<-53, 19309, 29482, 19804, 253>>, <<-53, 29475, 5130, 21352, 253>>, <<-53, 30933, 1768, 22869, 253>>,
      <<-52, 4351, 2986, 28562, 126>>, <<-52, 19131, 1973, 29291, 126>>, <<-52, 24465, 23536, 30005, 126>>,
      <<-53, 9491, 22535, 28644, 253>>, <<-52, 22303, 6887, 31393, 126>>, <<-52, 28039, 19178, 32066, 126>>,
      <<-52, 30711, 23986, 32726, 126>>, <<-51, 9345, 31264, 16686, 63>>, <<-52, 11051, 12018, 1240, 127>>,
      <<-52, 25017, 11655, 1862, 127>>, <<-53, 17889, 7752, 4944, 254>>, <<-50, 17137, 15508, 25343, 31>>,
      <<-53, 6691, 27146, 7311, 254>>, <<-53, 9501, 26939, 8460, 254>>, <<-53, 18131, 7126, 9587, 254>>,
      <<-53, 31129, 14942, 10691, 254>>, <<-53, 19591, 31808, 11773, 254>>, <<-51, 16407, 26101, 19592, 63>>,
      <<-53, 6293, 17005, 13875, 254>>, <<-50, 19485, 30217, 26437, 31>>, <<-49, 18037, 14667, 29665, 15>>,
      <<-52, 30059, 20731, 8437, 127>>, <<-53, 16205, 2391, 17836, 254>>, <<-53, 9753, 31537, 18777, 254>>,
      <<-52, 20001, 21367, 9850, 127>>, <<-53, 7663, 15120, 20606, 254>>, <<-52, 12221, 29334, 10746, 127>>,
      <<-51, 24337, 29822, 21974, 63>>, <<-46, 21303, 12378, 32437, 1>>, <<-45, 6667, 31266, 32605>>,
      <<-51, 21525, 30385, 22601, 63>>, <<-51, 19473, 24600, 22802, 63>>, <<-53, 11483, 15249, 26462, 254>>,
      <<-53, 31277, 13331, 27234, 254>>, <<-53, 27121, 4324, 27991, 254>>, <<-51, 5003, 7695, 23567, 63>>,
      <<-53, 21241, 3989, 29460, 254>>, <<-51, 29675, 7915, 23927, 63>>, <<-52, 18351, 28745, 15435, 127>>,
      <<-51, 9289, 6245, 24273, 63>>, <<-49, 21503, 8725, 30686, 15>>, <<-52, 20785, 8429, 16443, 127>>,
      <<-53, 665, 25702, 763, 255>>, <<-53, 3629, 10659, 1396, 255>>, <<-52, 30521, 6347, 17392, 127>>,
      <<-50, 6949, 885, 29000, 31>>, <<-52, 19675, 848, 17994, 127>>, <<-53, 4891, 4269, 3804, 255>>,
      <<-53, 15011, 22373, 4376, 255>>, <<-53, 2963, 30670, 4937, 255>>, <<-53, 29665, 3673, 5488, 255>>,
      <<-53, 14875, 14061, 6027, 255>>, <<-52, 28233, 1648, 19662, 127>>, <<-53, 27135, 11014, 7074, 255>>,
      <<-48, 6813, 31069, 31980, 7>>, <<-51, 28225, 2593, 26596, 63>>, <<-52, 5835, 7543, 20668, 127>>,
      <<-51, 15873, 24296, 26837, 63>>, <<-52, 9685, 374, 21142, 127>>, <<-53, 31747, 26782, 9975, 255>>,
      <<-53, 10845, 17426, 10426, 255>>, <<-50, 11705, 17797, 30030, 31>>, <<-52, 31421, 23468, 22034, 127>>,
      <<-52, 4819, 32208, 22246, 127>>, <<-53, 12021, 3728, 12142, 255>>, <<-51, 2091, 16724, 27713, 63>>,
      <<-52, 31441, 31309, 22858, 127>>, <<-53, 7185, 28871, 13341, 255>>, <<-52, 31797, 1759, 23247, 127>>,
      <<-50, 31847, 27617, 30434, 31>>, <<-52, 4373, 31727, 23619, 127>>, <<-53, 23649, 27378, 14833, 255>>,
      <<-49, 12449, 9387, 31669, 15>>, <<-51, 6115, 2637, 28460, 63>>, <<-53, 13275, 6176, 15877, 255>>,
      <<-53, 25309, 10449, 16211, 255>>, <<-53, 11035, 27722, 16538, 255>>, <<-52, 941, 31131, 24813, 127>>,
      <<-53, 1029, 19949, 17174, 255>>, <<-53, 4215, 3189, 17483, 255>>, <<-53, 19529, 16003, 17785, 255>>,
      <<-50, 27157, 7791, 30932, 31>>, <<-52, 15081, 7487, 25570, 127>>, <<-52, 19039, 20776, 25712, 127>>,
      <<-52, 25227, 7355, 25852, 127>>, <<-53, 6017, 3627, 19210, 255>>, <<-53, 19539, 11869, 19478, 255>>,
      <<-47, 29723, 15006, 32564, 3>>, <<-53, 31895, 1958, 19999, 255>>, <<-52, 20811, 28067, 26509, 127>>,
      <<-52, 27317, 22461, 26633, 127>>, <<-53, 32629, 4323, 20742, 255>>, <<-49, 949, 8382, 32031, 15>>,
      <<-53, 29495, 11410, 21213, 255>>, <<-53, 32087, 32479, 21441, 255>>, <<-50, 1699, 8654, 31380, 31>>,
      <<-49, 4375, 28267, 32087, 15>>, <<-53, 14411, 4825, 22101, 255>>, <<-53, 3865, 7650, 22312, 255>>,
      <<-51, 4643, 25764, 30205, 63>>, <<-53, 28569, 31602, 22721, 255>>, <<-53, 28615, 25313, 22920, 255>>,
      <<-53, 6869, 21250, 23115, 255>>, <<-50, 21881, 10936, 31585, 31>>, <<-52, 9145, 31349, 28130, 127>>,
      <<-53, 31347, 14847, 23677, 255>>, <<-53, 13517, 11875, 23857, 255>>, <<-52, 24965, 28065, 28400, 127>>,
      <<-53, 17675, 18848, 24206, 255>>, <<-53, 8841, 589, 24376, 255>>, <<-52, 32421, 1783, 28655, 127>>,
      <<-53, 8483, 29955, 24704, 255>>, <<-52, 14565, 8171, 28816, 127>>, <<-53, 22145, 30352, 25020, 255>>,
      <<-53, 9129, 8493, 25174, 255>>, <<-51, 8339, 4576, 30907, 63>>, <<-51, 5477, 31822, 30943, 63>>,
      <<-53, 7769, 9690, 25616, 255>>, <<-51, 14123, 15153, 31015, 63>>, <<-53, 28551, 19765, 25896, 255>>,
      <<-50, 3667, 2504, 31926, 31>>, <<-51, 9871, 15798, 31117, 63>>, <<-53, 3495, 19918, 26296, 255>>,
      <<-52, 8103, 11494, 29596, 127>>, <<-53, 17303, 8543, 26550, 255>>, <<-53, 9681, 10993, 26673, 255>>,
      <<-53, 15243, 31947, 26793, 255>>, <<-52, 31521, 3723, 29840, 127>>, <<-53, 13177, 4577, 27028, 255>>,
      <<-52, 1441, 28810, 29954, 127>>, <<-53, 7479, 4222, 27253, 255>>, <<-53, 23545, 9680, 27362, 255>>,
      <<-52, 27541, 21327, 30118, 127>>, <<-53, 1027, 6243, 27574, 255>>, <<-51, 24859, 8221, 31495, 63>>,
      <<-53, 27839, 25628, 27777, 255>>, <<-48, 27713, 4675, 32615, 7>>, <<-53, 7051, 12958, 27973, 255>>,
      <<-53, 10117, 10105, 28068, 255>>, <<-50, 25873, 5500, 32192, 31>>, <<-49, 13667, 25674, 32485, 15>>,
      <<-53, 24869, 30307, 28341, 255>>, <<-53, 12235, 17839, 28429, 255>>, <<-53, 6603, 14084, 28515, 255>>,
      <<-50, 25677, 31192, 32246, 31>>, <<-51, 27757, 17488, 31746, 63>>, <<-53, 19615, 691, 28763, 255>>,
      <<-53, 19445, 10041, 28842, 255>>, <<-53, 4671, 739, 28920, 255>>, <<-53, 16539, 6569, 28996, 255>>,
      <<-52, 30019, 14264, 30919, 127>>, <<-51, 12841, 515, 31862, 63>>, <<-53, 27271, 26426, 29215, 255>>,
      <<-53, 26493, 4260, 29286, 255>>, <<-52, 1843, 17394, 31061, 127>>, <<-52, 19021, 10303, 31095, 127>>,
      <<-51, 20729, 7034, 31948, 63>>, <<-53, 10135, 25481, 29553, 255>>, <<-50, 22295, 5781, 32374, 31>>,
      <<-53, 2389, 25752, 29679, 255>>, <<-50, 7647, 20175, 32389, 31>>, <<-50, 13705, 3502, 32397, 31>>,
      <<-53, 6617, 19605, 29859, 255>>, <<-49, 1251, 26990, 32589, 15>>, <<-53, 17653, 20295, 29973, 255>>,
      <<-53, 1385, 30893, 30028, 255>>, <<-53, 18453, 5605, 30083, 255>>, <<-51, 26351, 2669, 32110, 63>>,
      <<-51, 16997, 3510, 32123, 63>>, <<-53, 14533, 16376, 30239, 255>>, <<-53, 4409, 18351, 30289, 255>>,
      <<-52, 28381, 10310, 31553, 127>>, <<-51, 23385, 22341, 32172, 63>>, <<-53, 13423, 28608, 30433, 255>>,
      <<-52, 30249, 1401, 31624, 127>>, <<-52, 6563, 22663, 31646, 127>>, <<-53, 11051, 25697, 30569, 255>>,
      <<-53, 6091, 10034, 30613, 255>>, <<-53, 31883, 31674, 30655, 255>>, <<-53, 14723, 25642, 30697, 255>>,
      <<-51, 2561, 22697, 32260, 63>>, <<-53, 13963, 31041, 30778, 255>>, <<-53, 1067, 10768, 30818, 255>>,
      <<-53, 31599, 30483, 30856, 255>>, <<-50, 28053, 27720, 32533, 31>>, <<-53, 10181, 28056, 30931, 255>>,
      <<-48, 14509, 24791, 32711, 7>>, <<-53, 20683, 27684, 31003, 255>>, <<-53, 15845, 25358, 31038, 255>>,
      <<-52, 20919, 16570, 31920, 127>>, <<-53, 16679, 18713, 31106, 255>>, <<-53, 26363, 15282, 31139, 255>>,
      <<-52, 1465, 28024, 31969, 127>>, <<-51, 30829, 27165, 32376, 63>>, <<-53, 28447, 9703, 31234, 255>>,
      <<-53, 8299, 21718, 31264, 255>>, <<-50, 3021, 26330, 32583, 31>>, <<-52, 20777, 26286, 32045, 127>>,
      <<-52, 1245, 3325, 32060, 127>>, <<-49, 28321, 8673, 32681, 15>>, <<-53, 25545, 23351, 31407, 255>>,
      <<-53, 29983, 21167, 31434, 255>>, <<-51, 25375, 8569, 32441, 63>>, <<-52, 19775, 15131, 32127, 127>>,
      <<-51, 26857, 2364, 32454, 63>>, <<-53, 20903, 4967, 31537, 255>>, <<-52, 567, 24941, 32164, 127>>,
      <<-51, 14511, 11554, 32472, 63>>, <<-53, 27259, 27055, 31608, 255>>, <<-52, 16481, 29119, 32199, 127>>,
      <<-53, 383, 8996, 31654, 255>>, <<-50, 23003, 17720, 32631, 31>>, <<-51, 6159, 15905, 32500, 63>>,
      <<-53, 20777, 4220, 31719, 255>>, <<-53, 28581, 29378, 31739, 255>>, <<-52, 25913, 4147, 32264, 127>>,
      <<-51, 12221, 1693, 32521, 63>>, <<-53, 1751, 25074, 31799, 255>>, <<-53, 17771, 30685, 31818, 255>>,
      <<-53, 5313, 23859, 31837, 255>>, <<-53, 4735, 4841, 31856, 255>>, <<-51, 6943, 18044, 32544, 63>>,
      <<-52, 13963, 31131, 32329, 127>>, <<-53, 1863, 8099, 31909, 255>>, <<-53, 25223, 8216, 31926, 255>>,
      <<-50, 27853, 28334, 32664, 31>>, <<-53, 17915, 8343, 31959, 255>>, <<-53, 2813, 8785, 31975, 255>>,
      <<-53, 8393, 31605, 31990, 255>>, <<-53, 24337, 11473, 32006, 255>>, <<-53, 5225, 14128, 32021, 255>>,
      <<-53, 4239, 6998, 32036, 255>>, <<-53, 11917, 23045, 32050, 255>>, <<-52, 28495, 14845, 32416, 127>>,
      <<-52, 22515, 13561, 32423, 127>>, <<-53, 23029, 15522, 32092, 255>>, <<-52, 8975, 30302, 32436, 127>>,
      <<-51, 1575, 24252, 32605, 63>>, <<-50, 5937, 15613, 32688, 31>>, <<-53, 23975, 13392, 32144, 255>>,
      <<-45, 25999, 20064, 32765>>, <<-53, 13655, 28154, 32168, 255>>, <<-53, 7789, 23677, 32180, 255>>,
      <<-48, 15409, 359, 32750, 7>>, <<-53, 7775, 24552, 32203, 255>>, <<-53, 5877, 30206, 32214, 255>>,
      <<-49, 6739, 3836, 32734, 15>>, <<-52, 17837, 9955, 32502, 127>>, <<-51, 18437, 25637, 32637, 63>>,
      <<-53, 21897, 14522, 32257, 255>>, <<-52, 24637, 25437, 32517, 127>>, <<-53, 7975, 15133, 32277, 255>>,
      <<-53, 24605, 5729, 32287, 255>>, <<-51, 2613, 5698, 32650, 63>>, <<-51, 14093, 16611, 32652, 63>>,
      <<-52, 4221, 19254, 32541, 127>>, <<-53, 26615, 4635, 32324, 255>>, <<-53, 29237, 30481, 32332, 255>>,
      <<-53, 22263, 17857, 32341, 255>>, <<-52, 1233, 32590, 32558, 127>>, <<-46, 4031, 26180, 32764, 1>>,
      <<-53, 5483, 12425, 32366, 255>>, <<-51, 21847, 19100, 32669, 63>>, <<-53, 15321, 4148, 32382, 255>>,
      <<-51, 5971, 14477, 32673, 63>>, <<-51, 29391, 10293, 32675, 63>>, <<-49, 31127, 9415, 32745, 15>>,
      <<-49, 24111, 24152, 32745, 15>>, <<-53, 20213, 27739, 32418, 255>>, <<-52, 19167, 28837, 32596, 127>>,
      <<-51, 8529, 4397, 32684, 63>>, <<-52, 755, 19321, 32603, 127>>, <<-53, 7917, 22617, 32445, 255>>,
      <<-53, 31495, 2367, 32452, 255>>, <<-52, 30287, 5372, 32613, 127>>, <<-50, 3653, 1883, 32730, 31>>,
      <<-53, 14931, 15405, 32470, 255>>, <<-52, 5137, 5923, 32622, 127>>, <<-52, 11133, 2232, 32625, 127>>,
      <<-53, 7825, 26104, 32487, 255>>, <<-49, 14701, 27330, 32750, 15>>, <<-52, 3535, 12835, 32633, 127>>,
      <<-50, 18963, 467, 32735, 31>>, <<-53, 9401, 11120, 32509, 255>>, <<-53, 21997, 15109, 32514, 255>>,
      <<-53, 29841, 15775, 32519, 255>>, <<-53, 26339, 13184, 32524, 255>>, <<-52, 13873, 20084, 32648, 127>>,
      <<-50, 29731, 24386, 32738, 31>>, <<-50, 8219, 10601, 32739, 31>>, <<-52, 30005, 18526, 32655, 127>>,
      <<-53, 8873, 19118, 32547, 255>>, <<-53, 22409, 31061, 32551, 255>>, <<-53, 8987, 7405, 32556, 255>>,
      <<-53, 3701, 13741, 32560, 255>>, <<-52, 2635, 8678, 32666, 127>>, <<-53, 9519, 18304, 32568, 255>>,
      <<-51, 18907, 4159, 32719, 63>>, <<-51, 16169, 3102, 32720, 63>>, <<-52, 385, 2835, 32674, 127>>,
      <<-53, 6169, 29236, 32583, 255>>, <<-52, 19899, 25194, 32677, 127>>, <<-53, 28953, 3640, 32591, 255>>,
      <<-51, 16635, 21411, 32724, 63>>, <<-53, 18469, 1538, 32598, 255>>, <<-52, 24273, 23137, 32684, 127>>,
      <<-53, 29237, 23292, 32604, 255>>, <<-53, 999, 30938, 32607, 255>>, <<-52, 20887, 18242, 32689, 127>>,
      <<-53, 5403, 7208, 32614, 255>>, <<-53, 13685, 8683, 32617, 255>>, <<-51, 24117, 2045, 32731, 63>>,
      <<-53, 28327, 5745, 32623, 255>>, <<-53, 17211, 1410, 32626, 255>>, <<-53, 16811, 27982, 32628, 255>>,
      <<-53, 21967, 19962, 32631, 255>>, <<-53, 3619, 10155, 32634, 255>>, <<-53, 7577, 31363, 32636, 255>>,
      <<-52, 28343, 25426, 32703, 127>>, <<-53, 20207, 3124, 32642, 255>>, <<-53, 7477, 19281, 32644, 255>>,
      <<-53, 7903, 1052, 32647, 255>>, <<-53, 22457, 14005, 32649, 255>>, <<-53, 31329, 25404, 32651, 255>>,
      <<-52, 13555, 1256, 32711, 127>>, <<-52, 23979, 5447, 32712, 127>>, <<-51, 19923, 20837, 32740, 63>>,
      <<-51, 22237, 5824, 32741, 63>>, <<-53, 23559, 27376, 32662, 255>>, <<-51, 2383, 7519, 32742, 63>>,
      <<-52, 11869, 15712, 32717, 127>>, <<-53, 25337, 31448, 32668, 255>>, <<-51, 21801, 23927, 32743, 63>>,
      <<-53, 3055, 27628, 32672, 255>>, <<-53, 8679, 23834, 32674, 255>>, <<-53, 28609, 18817, 32676, 255>>,
      <<-53, 4119, 12603, 32678, 255>>, <<-50, 23557, 651, 32757, 31>>, <<-52, 16521, 31104, 32724, 127>>,
      <<-52, 27775, 26269, 32725, 127>>, <<-53, 5199, 8996, 32685, 255>>, <<-53, 9923, 29904, 32686, 255>>,
      <<-51, 13093, 4245, 32748, 63>>, <<-53, 2965, 3017, 32690, 255>>, <<-51, 27919, 29775, 32748, 63>>,
      <<-51, 6319, 9395, 32749, 63>>, <<-52, 16387, 10306, 32731, 127>>, <<-49, 23597, 16551, 32763, 15>>,
      <<-52, 22601, 24673, 32732, 127>>, <<-53, 7811, 29551, 32698, 255>>, <<-53, 12935, 8849, 32700, 255>>,
      <<-50, 15493, 22983, 32759, 31>>, <<-50, 32687, 28367, 32759, 31>>, <<-53, 7165, 7023, 32704, 255>>,
      <<-52, 6345, 24205, 32736, 127>>, <<-53, 1345, 23442, 32706, 255>>, <<-52, 6673, 31603, 32737, 127>>,
      <<-52, 22805, 18323, 32738, 127>>, <<-52, 9599, 4658, 32739, 127>>, <<-47, 23179, 3802, 32767, 3>>,
      <<-53, 14037, 17936, 32712, 255>>, <<-51, 6059, 13479, 32754, 63>>, <<-51, 4895, 22296, 32754, 63>>,
      <<-53, 3587, 25450, 32715, 255>>, <<-53, 3389, 26567, 32716, 255>>, <<-52, 18573, 29890, 32742, 127>>,
      <<-53, 15919, 26801, 32718, 255>>, <<-52, 19379, 29356, 32743, 127>>, <<-52, 16211, 12228, 32744, 127>>,
      <<-51, 11615, 13779, 32756, 63>>, <<-47, 25975, 9522, 32767, 3>>, <<-51, 7821, 28657, 32756, 63>>,
      <<-48, 16249, 20868, 32766, 7>>, <<-49, 30767, 10737, 32765, 15>>, <<-53, 24267, 2941, 32726, 255>>,
      <<-51, 25545, 23917, 32757, 63>>, <<-53, 1103, 24022, 32727, 255>>, <<-52, 18823, 8690, 32748, 127>>,
      <<-51, 23879, 10747, 32758, 63>>, <<-53, 18873, 2557, 32730, 255>>, <<-51, 25995, 23174, 32758, 63>>,
      <<-53, 17995, 18513, 32731, 255>>, <<-53, 11511, 9386, 32732, 255>>, <<-53, 1185, 32559, 32732, 255>>,
      <<-47, 20927, 15199, 32767, 3>>, <<-53, 31051, 12000, 32734, 255>>, <<-53, 5431, 1056, 32735, 255>>,
      <<-53, 8417, 22447, 32735, 255>>, <<-53, 25481, 10646, 32736, 255>>, <<-53, 3775, 31199, 32736, 255>>,
      <<-49, 1005, 3209, 32766, 15>>, <<-51, 24269, 17772, 32760, 63>>, <<-53, 14069, 24910, 32738, 255>>,
      <<-53, 20761, 11114, 32739, 255>>, <<-53, 5383, 29711, 32739, 255>>, <<-50, 14173, 18280, 32764, 31>>,
      <<-51, 23043, 8259, 32761, 63>>, <<-53, 12103, 17784, 32741, 255>>, <<-53, 4433, 2183, 32742, 255>>,
      <<-53, 32031, 19009, 32742, 255>>, <<-47, 24385, 20010, 32767, 3>>, <<-52, 11161, 25835, 32755, 127>>,
      <<-52, 26333, 990, 32756, 127>>, <<-51, 22479, 4378, 32762, 63>>, <<-50, 17633, 4092, 32765, 31>>,
      <<-49, 779, 19363, 32766, 15>>, <<-53, 30805, 29524, 32745, 255>>, <<-53, 27383, 11095, 32746, 255>>,
      <<-53, 26307, 25150, 32746, 255>>, <<-52, 23981, 19463, 32757, 127>>, <<-52, 21775, 26215, 32757, 127>>,
      <<-52, 29501, 65, 32758, 127>>, <<-53, 5671, 13106, 32748, 255>>, <<-51, 29789, 6455, 32763, 63>>,
      <<-53, 9095, 5521, 32749, 255>>, <<-53, 2723, 17740, 32749, 255>>, <<-53, 30821, 29716, 32749, 255>>,
      <<-53, 21001, 8688, 32750, 255>>, <<-53, 28839, 20195, 32750, 255>>, <<-53, 8557, 31475, 32750, 255>>,
      <<-48, 3375, 15665, 32767, 7>>, <<-53, 13335, 20600, 32751, 255>>, <<-52, 15225, 31995, 32759, 127>>,
      <<-53, 3667, 8867, 32752, 255>>, <<-52, 18349, 9536, 32760, 127>>, <<-53, 1173, 29077, 32752, 255>>,
      <<-53, 28221, 6114, 32753, 255>>, <<-53, 16995, 15726, 32753, 255>>, <<-53, 27945, 25147, 32753, 255>>,
      <<-52, 10361, 807, 32761, 127>>, <<-53, 18067, 10666, 32754, 255>>, <<-53, 7557, 19539, 32754, 255>>,
      <<-51, 1797, 23443, 32764, 63>>, <<-53, 32651, 3992, 32755, 255>>, <<-52, 15923, 22558, 32761, 127>>,
      <<-51, 28575, 29710, 32764, 63>>, <<-52, 29845, 30667, 32761, 127>>, <<-46, 21807, 29724, 32767, 1>>,
      <<-53, 23659, 11382, 32756, 255>>, <<-51, 28855, 4735, 32765, 63>>, <<-53, 19955, 26354, 32756, 255>>,
      <<-53, 31015, 850, 32757, 255>>, <<-50, 14093, 21476, 32766, 31>>, <<-53, 30795, 14950, 32757, 255>>,
      <<-51, 1931, 13640, 32765, 63>>, <<-53, 2133, 28498, 32757, 255>>, <<-53, 3615, 2303, 32758, 255>>,
      <<-52, 11, 4373, 32763, 127>>, <<-53, 10269, 15061, 32758, 255>>, <<-53, 18831, 21251, 32758, 255>>,
      <<-48, 23819, 23381, 32767, 7>>, <<-53, 26171, 498, 32759, 255>>, <<-53, 18599, 6328, 32759, 255>>,
      <<-52, 14737, 22405, 32763, 127>>, <<-53, 2625, 17644, 32759, 255>>, <<-53, 11471, 23134, 32759, 255>>,
      <<-53, 29671, 28515, 32759, 255>>, <<-53, 29461, 1022, 32760, 255>>, <<-49, 2951, 16771, 32767, 15>>,
      <<-51, 13101, 2815, 32766, 63>>, <<-53, 13153, 16229, 32760, 255>>, <<-53, 27347, 21098, 32760, 255>>,
      <<-53, 27741, 25871, 32760, 255>>, <<-53, 11361, 30550, 32760, 255>>, <<-53, 6763, 2368, 32761, 255>>,
      <<-52, 20645, 19815, 32764, 127>>, <<-51, 10697, 11009, 32766, 63>>, <<-53, 3473, 15588, 32761, 255>>,
      <<-51, 11373, 13147, 32766, 63>>, <<-53, 27725, 23970, 32761, 255>>, <<-49, 12573, 20184, 32767, 15>>,
      <<-53, 29311, 32024, 32761, 255>>, <<-53, 23161, 3164, 32762, 255>>, <<-52, 18667, 3497, 32765, 127>>,
      <<-53, 23733, 10749, 32762, 255>>, <<-51, 16085, 19991, 32766, 63>>, <<-53, 10785, 18037, 32762, 255>>,
      <<-52, 20713, 10786, 32765, 127>>, <<-49, 31095, 22044, 32767, 15>>, <<-53, 15475, 28436, 32762, 255>>,
      <<-53, 16077, 31766, 32762, 255>>, <<-52, 9343, 17515, 32765, 127>>, <<-53, 551, 5462, 32763, 255>>,
      <<-50, 25027, 13362, 32767, 31>>, <<-51, 857, 27494, 32766, 63>>, <<-53, 7537, 14685, 32763, 255>>,
      <<-53, 22661, 17638, 32763, 255>>, <<-53, 21977, 20533, 32763, 255>>, <<-53, 10663, 23371, 32763, 255>>,
      <<-52, 12957, 29460, 32765, 127>>, <<-51, 26047, 31795, 32766, 63>>, <<-52, 25923, 32159, 32765, 127>>,
      <<-53, 2221, 1403, 32764, 255>>, <<-49, 5497, 24824, 32767, 15>>, <<-52, 23891, 3243, 32766, 127>>,
      <<-51, 19635, 2238, 32767, 63>>, <<-52, 7977, 5686, 32766, 127>>, <<-53, 22791, 13742, 32764, 255>>,
      <<-50, 8073, 18392, 32767, 31>>, <<-50, 29665, 18676, 32767, 31>>, <<-53, 13793, 20575, 32764, 255>>,
      <<-52, 22927, 11381, 32766, 127>>, <<-52, 867, 12454, 32766, 127>>, <<-53, 7849, 27010, 32764, 255>>,
      <<-50, 27853, 20017, 32767, 31>>, <<-52, 9155, 15545, 32766, 127>>, <<-51, 19035, 8267, 32767, 63>>,
      <<-50, 11823, 20760, 32767, 31>>, <<-53, 775, 4145, 32765, 255>>, <<-51, 12255, 9694, 32767, 63>>,
      <<-49, 26725, 27113, 32767, 15>>, <<-51, 3397, 10599, 32767, 63>>, <<-53, 10113, 11384, 32765, 255>>,
      <<-53, 14207, 13105, 32765, 255>>, <<-53, 15661, 14792, 32765, 255>>, <<-52, 1911, 24607, 32766, 127>>,
      <<-53, 363, 18067, 32765, 255>>, <<-51, 31209, 13105, 32767, 63>>, <<-53, 4849, 21213, 32765, 255>>,
      <<-49, 7473, 28045, 32767, 15>>, <<-53, 30249, 24235, 32765, 255>>, <<-53, 18649, 25702, 32765, 255>>,
      <<-50, 17095, 23872, 32767, 31>>, <<-52, 21489, 30658, 32766, 127>>, <<-53, 17917, 29930, 32765, 255>>,
      <<-52, 7073, 32026, 32766, 127>>, <<-53, 16643, 32611, 32765, 255>>, <<-53, 10035, 1144, 32766, 255>>,
      <<-53, 11373, 2419, 32766, 255>>, <<-50, 21055, 25034, 32767, 31>>, <<-51, 17909, 17607, 32767, 63>>,
      <<-53, 31929, 6094, 32766, 255>>, <<-53, 32291, 7271, 32766, 255>>, <<-53, 22613, 8425, 32766, 255>>,
      <<-53, 18019, 9556, 32766, 255>>, <<-52, 16665, 5332, 32767, 127>>, <<-53, 17541, 11751, 32766, 255>>,
      <<-53, 17661, 12816, 32766, 255>>, <<-53, 14881, 13860, 32766, 255>>, <<-52, 27827, 7441, 32767, 127>>,
      <<-52, 11159, 7943, 32767, 127>>, <<-53, 26325, 16869, 32766, 255>>, <<-52, 23897, 8916, 32767, 127>>,
      <<-51, 16647, 21078, 32767, 63>>, <<-53, 29551, 19703, 32766, 255>>, <<-53, 14355, 20611, 32766, 255>>,
      <<-53, 129, 21501, 32766, 255>>, <<-53, 31301, 22372, 32766, 255>>, <<-52, 26881, 11613, 32767, 127>>,
      <<-52, 22975, 12032, 32767, 127>>, <<-51, 21095, 22605, 32767, 63>>, <<-50, 14285, 27787, 32767, 31>>,
      <<-53, 15129, 26480, 32766, 255>>, <<-53, 26645, 27253, 32766, 255>>, <<-53, 27891, 28011, 32766, 255>>,
      <<-53, 28805, 28754, 32766, 255>>, <<-53, 6357, 29483, 32766, 255>>, <<-52, 17815, 15098, 32767, 127>>,
      <<-53, 27677, 30896, 32766, 255>>, <<-50, 27631, 28523, 32767, 31>>, <<-53, 2139, 32255, 32766, 255>>,
      <<-51, 16973, 24612, 32767, 63>>, <<-53, 961, 792, 32767, 255>>, <<-51, 9797, 24932, 32767, 63>>,
      <<-53, 27033, 2045, 32767, 255>>, <<-53, 5399, 2654, 32767, 255>>, <<-53, 15029, 3250, 32767, 255>>,
      <<-53, 30969, 3834, 32767, 255>>, <<-53, 28113, 4407, 32767, 255>>, <<-52, 23369, 18868, 32767, 127>>,
      <<-52, 30719, 19143, 32767, 127>>, <<-51, 28049, 26090, 32767, 63>>, <<-53, 9475, 6588, 32767, 255>>,
      <<-53, 22353, 7106, 32767, 255>>, <<-53, 26551, 7614, 32767, 255>>, <<-52, 14365, 20440, 32767, 127>>,
      <<-53, 2651, 8601, 32767, 255>>, <<-50, 31203, 29806, 32767, 31>>, <<-51, 5565, 26963, 32767, 63>>,
      <<-49, 17311, 31345, 32767, 15>>, <<-53, 3993, 10459, 32767, 255>>, <<-53, 28417, 10900, 32767, 255>>,
      <<-53, 28359, 11333, 32767, 255>>, <<-52, 4747, 22263, 32767, 127>>, <<-53, 10153, 12174, 32767, 255>>,
      <<-52, 1511, 22675, 32767, 127>>, <<-53, 26213, 12981, 32767, 255>>, <<-52, 26099, 23070, 32767, 127>>,
      <<-48, 30339, 32173, 32767, 7>>, <<-53, 1917, 14134, 32767, 255>>, <<-53, 1155, 14503, 32767, 255>>,
      <<-53, 23127, 14864, 32767, 255>>, <<-53, 7037, 15219, 32767, 255>>, <<-51, 22151, 28467, 32767, 63>>,
      <<-52, 21503, 24337, 32767, 127>>, <<-53, 5781, 16241, 32767, 255>>, <<-50, 1759, 30743, 32767, 31>>,
      <<-53, 6633, 16889, 32767, 255>>, <<-51, 29685, 28876, 32767, 63>>, <<-51, 31285, 28953, 32767, 63>>,
      <<-53, 29871, 17813, 32767, 255>>, <<-53, 733, 18110, 32767, 255>>, <<-53, 8839, 18400, 32767, 255>>,
      <<-53, 25227, 18684, 32767, 255>>, <<-53, 20857, 18963, 32767, 255>>, <<-50, 20403, 31076, 32767, 31>>,
      <<-50, 3741, 31110, 32767, 31>>, <<-48, 24105, 32361, 32767, 7>>, <<-52, 15833, 26396, 32767, 127>>,
      <<-52, 21223, 26522, 32767, 127>>, <<-52, 10287, 26646, 32767, 127>>, <<-51, 25091, 29767, 32767, 63>>,
      <<-52, 11425, 26886, 32767, 127>>, <<-51, 13323, 29885, 32767, 63>>, <<-53, 30901, 21465, 32767, 255>>,
      <<-53, 24207, 21689, 32767, 255>>, <<-53, 3375, 21909, 32767, 255>>, <<-53, 4049, 22124, 32767, 255>>,
      <<-53, 29047, 22334, 32767, 255>>, <<-53, 15595, 22541, 32767, 255>>, <<-52, 32353, 27755, 32767, 127>>,
      <<-53, 15193, 22942, 32767, 255>>, <<-53, 731, 23137, 32767, 255>>, <<-52, 28319, 28047, 32767, 127>>,
      <<-53, 21573, 23514, 32767, 255>>, <<-52, 30913, 28232, 32767, 127>>, <<-50, 22475, 31656, 32767, 31>>,
      <<-50, 22655, 31678, 32767, 31>>, <<-52, 1459, 28497, 32767, 127>>, <<-50, 13231, 31721, 32767, 31>>,
      <<-52, 16747, 28664, 32767, 127>>, <<-53, 17407, 24723, 32767, 255>>, <<-53, 26947, 24882, 32767, 255>>,
      <<-51, 24243, 30835, 32767, 63>>, <<-53, 151, 25192, 32767, 255>>, <<-52, 317, 29055, 32767, 127>>,
      <<-53, 2085, 25489, 32767, 255>>, <<-52, 19599, 29200, 32767, 127>>, <<-52, 7779, 29271, 32767, 127>>,
      <<-52, 15661, 29340, 32767, 127>>, <<-49, 1423, 32348, 32767, 15>>, <<-53, 24445, 26181, 32767, 255>>,
      <<-53, 5327, 26312, 32767, 255>>, <<-51, 32741, 31185, 32767, 63>>, <<-50, 21707, 31992, 32767, 31>>,
      <<-53, 3973, 26688, 32767, 255>>, <<-52, 8371, 29788, 32767, 127>>, <<-51, 20617, 31307, 32767, 63>>,
      <<-53, 6089, 27042, 32767, 255>>, <<-53, 18499, 27155, 32767, 255>>, <<-53, 22879, 27266, 32767, 255>>,
      <<-52, 26727, 30071, 32767, 127>>, <<-51, 19721, 31446, 32767, 63>>, <<-50, 12571, 32120, 32767, 31>>,
      <<-52, 27171, 30228, 32767, 127>>, <<-53, 7087, 27790, 32767, 255>>, <<-52, 12829, 30328, 32767, 127>>,
      <<-53, 13041, 27985, 32767, 255>>, <<-50, 409, 32182, 32767, 31>>, <<-53, 30359, 28172, 32767, 255>>,
      <<-48, 8105, 32627, 32767, 7>>, <<-53, 3339, 28353, 32767, 255>>, <<-53, 17129, 28440, 32767, 255>>,
      <<-51, 18125, 31707, 32767, 63>>, <<-53, 6735, 28610, 32767, 255>>, <<-50, 18577, 32258, 32767, 31>>,
      <<-51, 10117, 31769, 32767, 63>>, <<-53, 11031, 28852, 32767, 255>>, <<-53, 28573, 28929, 32767, 255>>,
      <<-52, 30671, 30886, 32767, 127>>, <<-52, 6015, 30924, 32767, 127>>, <<-52, 22727, 30960, 32767, 127>>,
      <<-53, 31499, 29224, 32767, 255>>, <<-53, 3871, 29295, 32767, 255>>, <<-52, 30897, 31065, 32767, 127>>,
      <<-53, 9561, 29431, 32767, 255>>, <<-50, 5583, 32359, 32767, 31>>, <<-48, 26753, 32667, 32767, 7>>,
      <<-53, 19875, 29625, 32767, 255>>, <<-53, 27201, 29687, 32767, 255>>, <<-53, 26921, 29748, 32767, 255>>,
      <<-52, 9917, 31288, 32767, 127>>, <<-53, 6725, 29867, 32767, 255>>, <<-53, 21129, 29924, 32767, 255>>,
      <<-50, 20263, 32419, 32767, 31>>, <<-53, 4403, 30036, 32767, 255>>, <<-52, 3751, 31429, 32767, 127>>,
      <<-53, 8269, 30143, 32767, 255>>, <<-50, 13213, 32446, 32767, 31>>, <<-50, 25273, 32452, 32767, 31>>,
      <<-53, 3465, 30296, 32767, 255>>, <<-52, 17245, 31556, 32767, 127>>, <<-53, 987, 30393, 32767, 255>>,
      <<-52, 945, 31604, 32767, 127>>, <<-53, 5047, 30486, 32767, 255>>, <<-52, 21915, 31649, 32767, 127>>,
      <<-49, 32003, 32630, 32767, 15>>, <<-52, 17013, 31693, 32767, 127>>, <<-53, 19355, 30661, 32767, 255>>,
      <<-52, 21305, 31735, 32767, 127>>, <<-53, 6035, 30744, 32767, 255>>, <<-53, 8467, 30784, 32767, 255>>,
      <<-52, 25217, 31795, 32767, 127>>, <<-53, 1377, 30862, 32767, 255>>, <<-53, 25641, 30899, 32767, 255>>,
      <<-52, 12709, 31852, 32767, 127>>, <<-50, 20629, 32543, 32767, 31>>, <<-52, 9487, 31888, 32767, 127>>,
      <<-52, 23231, 31905, 32767, 127>>, <<-53, 18577, 31077, 32767, 255>>, <<-52, 17035, 31939, 32767, 127>>,
      <<-51, 31537, 32361, 32767, 63>>, <<-52, 165, 31972, 32767, 127>>, <<-53, 17485, 31207, 32767, 255>>,
      <<-53, 14185, 31238, 32767, 255>>, <<-51, 5901, 32393, 32767, 63>>, <<-51, 19727, 32400, 32767, 63>>,
      <<-51, 28737, 32407, 32767, 63>>, <<-53, 1035, 31356, 32767, 255>>, <<-53, 32455, 31383, 32767, 255>>,
      <<-53, 12965, 31411, 32767, 255>>, <<-52, 4231, 32103, 32767, 127>>, <<-53, 19297, 31464, 32767, 255>>,
      <<-53, 13047, 31490, 32767, 255>>, <<-53, 22819, 31515, 32767, 255>>, <<-49, 9203, 32691, 32767, 15>>,
      <<-53, 26211, 31564, 32767, 255>>, <<-53, 20475, 31588, 32767, 255>>, <<-53, 32049, 31611, 32767, 255>>,
      <<-53, 28469, 31634, 32767, 255>>, <<-53, 10037, 31657, 32767, 255>>, <<-53, 9815, 31679, 32767, 255>>,
      <<-52, 14045, 32234, 32767, 127>>, <<-53, 32377, 31721, 32767, 255>>, <<-52, 11477, 32255, 32767, 127>>,
      <<-51, 24599, 32516, 32767, 63>>, <<-50, 28275, 32644, 32767, 31>>, <<-51, 19737, 32526, 32767, 63>>,
      <<-53, 17343, 31821, 32767, 255>>, <<-53, 8869, 31840, 32767, 255>>, <<-52, 10501, 32313, 32767, 127>>,
      <<-53, 21215, 31876, 32767, 255>>, <<-53, 9745, 31894, 32767, 255>>, <<-53, 19591, 31911, 32767, 255>>,
      <<-51, 4553, 32558, 32767, 63>>, <<-53, 5829, 31945, 32767, 255>>, <<-53, 15429, 31961, 32767, 255>>,
      <<-53, 14457, 31977, 32767, 255>>, <<-53, 3123, 31993, 32767, 255>>, <<-47, 4321, 32756, 32767, 3>>,
      <<-53, 15721, 32023, 32767, 255>>, <<-53, 7283, 32038, 32767, 255>>, <<-53, 22047, 32052, 32767, 255>>,
      <<-53, 27435, 32066, 32767, 255>>, <<-49, 1477, 32725, 32767, 15>>, <<-53, 10821, 32094, 32767, 255>>,
      <<-53, 21947, 32107, 32767, 255>>, <<-53, 24419, 32120, 32767, 255>>, <<-52, 25587, 32450, 32767, 127>>,
      <<-53, 4077, 32146, 32767, 255>>, <<-53, 14365, 32158, 32767, 255>>, <<-53, 16663, 32170, 32767, 255>>,
      <<-53, 11129, 32182, 32767, 255>>, <<-53, 30687, 32193, 32767, 255>>, <<-48, 13623, 32750, 32767, 7>>,
      <<-53, 14609, 32216, 32767, 255>>, <<-53, 12037, 32227, 32767, 255>>, <<-53, 2379, 32238, 32767, 255>>,
      <<-52, 9271, 32508, 32767, 127>>, <<-53, 27897, 32258, 32767, 255>>, <<-52, 15289, 32518, 32767, 127>>,
      <<-53, 26717, 32278, 32767, 255>>, <<-53, 16445, 32288, 32767, 255>>, <<-53, 32655, 32297, 32767, 255>>,
      <<-53, 9937, 32307, 32767, 255>>, <<-51, 3487, 32655, 32767, 63>>, <<-50, 21985, 32712, 32767, 31>>,
      <<-52, 2165, 32551, 32767, 127>>, <<-53, 23701, 32342, 32767, 255>>, <<-53, 4729, 32351, 32767, 255>>,
      <<-52, 22915, 32563, 32767, 127>>, <<-53, 16039, 32367, 32767, 255>>, <<-52, 23267, 32571, 32767, 127>>,
      <<-51, 26163, 32671, 32767, 63>>, <<-53, 26653, 32390, 32767, 255>>, <<-53, 9247, 32398, 32767, 255>>,
      <<-52, 26265, 32586, 32767, 127>>, <<-53, 25527, 32412, 32767, 255>>, <<-51, 31235, 32680, 32767, 63>>,
      <<-52, 11591, 32597, 32767, 127>>, <<-53, 15253, 32433, 32767, 255>>, <<-51, 735, 32686, 32767, 63>>,
      <<-50, 26963, 32727, 32767, 31>>, <<-47, 2533, 32763, 32767, 3>>, <<-52, 19427, 32613, 32767, 127>>,
      <<-51, 10655, 32692, 32767, 63>>, <<-52, 21209, 32619, 32767, 127>>, <<-50, 21175, 32731, 32767, 31>>,
      <<-53, 30425, 32482, 32767, 255>>, <<-52, 9393, 32628, 32767, 127>>, <<-51, 17255, 32699, 32767, 63>>,
      <<-53, 17359, 32499, 32767, 255>>, <<-51, 6929, 32702, 32767, 63>>, <<-47, 31773, 32763, 32767, 3>>,
      <<-52, 19075, 32641, 32767, 127>>, <<-53, 5595, 32520, 32767, 255>>, <<-53, 2559, 32525, 32767, 255>>,
      <<-53, 29107, 32529, 32767, 255>>, <<-53, 19765, 32534, 32767, 255>>, <<-53, 7365, 32539, 32767, 255>>,
      <<-52, 28751, 32655, 32767, 127>>, <<-53, 6395, 32548, 32767, 255>>, <<-53, 17943, 32552, 32767, 255>>,
      <<-51, 6667, 32715, 32767, 63>>, <<-49, 2039, 32755, 32767, 15>>, <<-53, 3099, 32565, 32767, 255>>,
      <<-52, 18225, 32668, 32767, 127>>, <<-52, 17213, 32670, 32767, 127>>, <<-53, 29847, 32576, 32767, 255>>,
      <<-53, 22763, 32580, 32767, 255>>, <<-50, 1653, 32745, 32767, 31>>, <<-53, 1279, 32588, 32767, 255>>,
      <<-52, 26255, 32679, 32767, 127>>, <<-52, 17947, 32681, 32767, 127>>, <<-53, 17011, 32598, 32767, 255>>,
      <<-53, 28675, 32601, 32767, 255>>, <<-53, 5393, 32605, 32767, 255>>, <<-50, 1593, 32748, 32767, 31>>,
      <<-51, 29077, 32728, 32767, 63>>, <<-53, 21213, 32614, 32767, 255>>, <<-51, 13795, 32730, 32767, 63>>,
      <<-50, 19089, 32749, 32767, 31>>, <<-52, 25853, 32695, 32767, 127>>, <<-52, 7171, 32697, 32767, 127>>,
      <<-53, 7891, 32629, 32767, 255>>, <<-51, 32673, 32733, 32767, 63>>, <<-47, 30045, 32765, 32767, 3>>,
      <<-53, 10535, 32637, 32767, 255>>, <<-52, 31279, 32703, 32767, 127>>, <<-52, 7299, 32705, 32767, 127>>,
      <<-47, 2525, 32766, 32767, 3>>, <<-53, 12077, 32647, 32767, 255>>, <<-51, 14395, 32738, 32767, 63>>,
      <<-52, 1615, 32710, 32767, 127>>, <<-53, 12897, 32654, 32767, 255>>, <<-52, 10537, 32712, 32767, 127>>,
      <<-49, 5833, 32761, 32767, 15>>, <<-53, 311, 32661, 32767, 255>>, <<-51, 25625, 32741, 32767, 63>>,
      <<-52, 19737, 32716, 32767, 127>>, <<-53, 7869, 32667, 32767, 255>>, <<-53, 7711, 32669, 32767, 255>>,
      <<-52, 19513, 32719, 32767, 127>>, <<-53, 3537, 32673, 32767, 255>>, <<-51, 24469, 32744, 32767, 63>>,
      <<-53, 27155, 32676, 32767, 255>>, <<-50, 27173, 32756, 32767, 31>>, <<-53, 13225, 32680, 32767, 255>>,
      <<-52, 2263, 32725, 32767, 127>>, <<-53, 27469, 32683, 32767, 255>>, <<-53, 16541, 32685, 32767, 255>>,
      <<-51, 25709, 32747, 32767, 63>>, <<-50, 3029, 32758, 32767, 31>>, <<-51, 18915, 32748, 32767, 63>>,
      <<-52, 30267, 32729, 32767, 127>>, <<-53, 11641, 32693, 32767, 255>>, <<-52, 13653, 32731, 32767, 127>>,
      <<-53, 9245, 32696, 32767, 255>>, <<-53, 23011, 32697, 32767, 255>>, <<-53, 3087, 32699, 32767, 255>>,
      <<-53, 15029, 32700, 32767, 255>>, <<-53, 26085, 32701, 32767, 255>>, <<-52, 18137, 32735, 32767, 127>>,
      <<-53, 12843, 32704, 32767, 255>>, <<-53, 21347, 32705, 32767, 255>>, <<-52, 14517, 32737, 32767, 127>>,
      <<-49, 8389, 32764, 32767, 15>>, <<-53, 9253, 32709, 32767, 255>>, <<-50, 26399, 32760, 32767, 31>>,
      <<-50, 31067, 32760, 32767, 31>>, <<-53, 22997, 32712, 32767, 255>>, <<-53, 26109, 32713, 32767, 255>>,
      <<-53, 28511, 32714, 32767, 255>>, <<-50, 16065, 32761, 32767, 31>>, <<-53, 31239, 32716, 32767, 255>>,
      <<-53, 31593, 32717, 32767, 255>>, <<-53, 31291, 32718, 32767, 255>>, <<-53, 30345, 32719, 32767, 255>>,
      <<-52, 14385, 32744, 32767, 127>>, <<-53, 26577, 32721, 32767, 255>>, <<-53, 23779, 32722, 32767, 255>>,
      <<-53, 20387, 32723, 32767, 255>>, <<-52, 8207, 32746, 32767, 127>>, <<-52, 22319, 32746, 32767, 127>>,
      <<-49, 12711, 32765, 32767, 15>>, <<-53, 1117, 32727, 32767, 255>>, <<-52, 30233, 32747, 32767, 127>>,
      <<-50, 2623, 32763, 32767, 31>>, <<-53, 13755, 32729, 32767, 255>>, <<-51, 17889, 32758, 32767, 63>>,
      <<-53, 30557, 32730, 32767, 255>>, <<-49, 23893, 32765, 32767, 15>>, <<-53, 12647, 32732, 32767, 255>>,
      <<-53, 2987, 32733, 32767, 255>>, <<-52, 29203, 32750, 32767, 127>>, <<-48, 31191, 32766, 32767, 7>>,
      <<-52, 18417, 32751, 32767, 127>>, <<-52, 29083, 32751, 32767, 127>>, <<-53, 13539, 32736, 32767, 255>>,
      <<-52, 17017, 32752, 32767, 127>>, <<-53, 21355, 32737, 32767, 255>>, <<-53, 8279, 32738, 32767, 255>>,
      <<-51, 23279, 32760, 32767, 63>>, <<-51, 28009, 32760, 32767, 63>>, <<-53, 32277, 32739, 32767, 255>>,
      <<-52, 8843, 32754, 32767, 127>>, <<-49, 10411, 32766, 32767, 15>>, <<-50, 23005, 32764, 32767, 31>>,
      <<-53, 4551, 32742, 32767, 255>>, <<-53, 21331, 32742, 32767, 255>>, <<-53, 5011, 32743, 32767, 255>>,
      <<-53, 21133, 32743, 32767, 255>>, <<-50, 521, 32765, 32767, 31>>, <<-52, 9829, 32756, 32767, 127>>,
      <<-53, 2073, 32745, 32767, 255>>, <<-53, 16955, 32745, 32767, 255>>, <<-53, 31543, 32745, 32767, 255>>,
      <<-52, 6537, 32757, 32767, 127>>, <<-52, 13545, 32757, 32767, 127>>, <<-51, 26591, 32762, 32767, 63>>,
      <<-52, 27147, 32757, 32767, 127>>, <<-52, 979, 32758, 32767, 127>>, <<-49, 25507, 32766, 32767, 15>>,
      <<-52, 13789, 32758, 32767, 127>>, <<-53, 7241, 32749, 32767, 255>>, <<-52, 26097, 32758, 32767, 127>>,
      <<-53, 31369, 32749, 32767, 255>>, <<-51, 18961, 32763, 32767, 63>>, <<-50, 27299, 32765, 32767, 31>>,
      <<-50, 28705, 32765, 32767, 31>>, <<-53, 11289, 32751, 32767, 255>>, <<-49, 32101, 32766, 32767, 15>>,
      <<-53, 32689, 32751, 32767, 255>>, <<-47, 24737, 32767, 32767, 3>>, <<-53, 20481, 32752, 32767, 255>>,
      <<-53, 30457, 32752, 32767, 255>>, <<-51, 10059, 32764, 32767, 63>>, <<-53, 17053, 32753, 32767, 255>>,
      <<-49, 3701, 32767, 32767, 15>>, <<-53, 2889, 32754, 32767, 255>>, <<-51, 19363, 32764, 32767, 63>>,
      <<-51, 21575, 32764, 32767, 63>>, <<-51, 23743, 32764, 32767, 63>>, <<-53, 5169, 32755, 32767, 255>>,
      <<-52, 23135, 32761, 32767, 127>>, <<-52, 27219, 32761, 32767, 127>>, <<-51, 31995, 32764, 32767, 63>>,
      <<-53, 4755, 32756, 32767, 255>>, <<-53, 12447, 32756, 32767, 255>>, <<-53, 19987, 32756, 32767, 255>>,
      <<-53, 27377, 32756, 32767, 255>>, <<-53, 1853, 32757, 32767, 255>>, <<-52, 20861, 32762, 32767, 127>>,
      <<-52, 24341, 32762, 32767, 127>>, <<-49, 11661, 32767, 32767, 15>>, <<-53, 29423, 32757, 32767, 255>>,
      <<-52, 1605, 32763, 32767, 127>>, <<-53, 9635, 32758, 32767, 255>>, <<-53, 15933, 32758, 32767, 255>>,
      <<-52, 11053, 32763, 32767, 127>>, <<-53, 28157, 32758, 32767, 255>>, <<-50, 28837, 32766, 32767, 31>>,
      <<-53, 7133, 32759, 32767, 255>>, <<-48, 23953, 32767, 32767, 7>>, <<-53, 18417, 32759, 32767, 255>>,
      <<-51, 30549, 32765, 32767, 63>>, <<-53, 29259, 32759, 32767, 255>>, <<-53, 1751, 32760, 32767, 255>>,
      <<-53, 6907, 32760, 32767, 255>>, <<-53, 11961, 32760, 32767, 255>>, <<-53, 16915, 32760, 32767, 255>>,
      <<-53, 21771, 32760, 32767, 255>>, <<-53, 26531, 32760, 32767, 255>>, <<-51, 7799, 32766, 32767, 63>>,
      <<-53, 3001, 32761, 32767, 255>>, <<-51, 10063, 32766, 32767, 63>>, <<-53, 11877, 32761, 32767, 255>>,
      <<-50, 6119, 32767, 32767, 31>>, <<-52, 26587, 32764, 32767, 127>>, <<-48, 26367, 32767, 32767, 7>>,
      <<-53, 28599, 32761, 32767, 255>>, <<-53, 32575, 32761, 32767, 255>>, <<-50, 8655, 32767, 32767, 31>>,
      <<-51, 18265, 32766, 32767, 63>>, <<-51, 19201, 32766, 32767, 63>>, <<-52, 7469, 32765, 32767, 127>>,
      <<-53, 18535, 32762, 32767, 255>>, <<-53, 22061, 32762, 32767, 255>>, <<-52, 12759, 32765, 32767, 127>>,
      <<-53, 28905, 32762, 32767, 255>>, <<-52, 16113, 32765, 32767, 127>>, <<-53, 2713, 32763, 32767, 255>>,
      <<-49, 22897, 32767, 32767, 15>>, <<-53, 9031, 32763, 32767, 255>>, <<-47, 30397, 32767, 32767, 3>>,
      <<-53, 15101, 32763, 32767, 255>>, <<-52, 25407, 32765, 32767, 127>>, <<-53, 20933, 32763, 32767, 255>>,
      <<-53, 23763, 32763, 32767, 255>>, <<-53, 26537, 32763, 32767, 255>>, <<-53, 29255, 32763, 32767, 255>>,
      <<-49, 24523, 32767, 32767, 15>>, <<-53, 1765, 32764, 32767, 255>>, <<-53, 4325, 32764, 32767, 255>>,
      <<-53, 6835, 32764, 32767, 255>>, <<-53, 9295, 32764, 32767, 255>>, <<-52, 5853, 32766, 32767, 127>>,
      <<-52, 7035, 32766, 32767, 127>>, <<-53, 16387, 32764, 32767, 255>>, <<-52, 9329, 32766, 32767, 127>>,
      <<-51, 5221, 32767, 32767, 63>>, <<-53, 23065, 32764, 32767, 255>>, <<-51, 6301, 32767, 32767, 63>>,
      <<-51, 6825, 32767, 32767, 63>>, <<-53, 29355, 32764, 32767, 255>>, <<-53, 31369, 32764, 32767, 255>>,
      <<-47, 31241, 32767, 32767, 3>>, <<-53, 2511, 32765, 32767, 255>>, <<-50, 21031, 32767, 32767, 31>>,
      <<-53, 6267, 32765, 32767, 255>>, <<-53, 8089, 32765, 32767, 255>>, <<-51, 10661, 32767, 32767, 63>>,
      <<-53, 11627, 32765, 32767, 255>>, <<-53, 13343, 32765, 32767, 255>>, <<-53, 15025, 32765, 32767, 255>>,
      <<-52, 24721, 32766, 32767, 127>>, <<-53, 18291, 32765, 32767, 255>>, <<-53, 19875, 32765, 32767, 255>>,
      <<-51, 13549, 32767, 32767, 63>>, <<-52, 27859, 32766, 32767, 127>>, <<-52, 28605, 32766, 32767, 127>>,
      <<-53, 25905, 32765, 32767, 255>>, <<-53, 27339, 32765, 32767, 255>>, <<-50, 24073, 32767, 32767, 31>>,
      <<-53, 30121, 32765, 32767, 255>>, <<-53, 31471, 32765, 32767, 255>>, <<-53, 27, 32766, 32767, 255>>,
      <<-51, 16715, 32767, 32767, 63>>, <<-53, 2595, 32766, 32767, 255>>, <<-52, 1921, 32767, 32767, 127>>,
      <<-53, 5063, 32766, 32767, 255>>, <<-53, 6261, 32766, 32767, 255>>, <<-52, 3717, 32767, 32767, 127>>,
      <<-53, 8585, 32766, 32767, 255>>, <<-53, 9713, 32766, 32767, 255>>, <<-52, 5409, 32767, 32767, 127>>,
      <<-52, 5951, 32767, 32767, 127>>, <<-51, 19625, 32767, 32767, 63>>, <<-53, 14005, 32766, 32767, 255>>,
      <<-53, 15025, 32766, 32767, 255>>, <<-53, 16025, 32766, 32767, 255>>, <<-53, 17005, 32766, 32767, 255>>,
      <<-52, 8983, 32767, 32767, 127>>, <<-51, 21111, 32767, 32767, 63>>, <<-50, 27055, 32767, 32767, 31>>,
      <<-53, 20737, 32766, 32767, 255>>, <<-50, 27279, 32767, 32767, 31>>, <<-53, 22493, 32766, 32767, 255>>,
      <<-52, 11673, 32767, 32767, 127>>, <<-53, 24181, 32766, 32767, 255>>, <<-50, 27701, 32767, 32767, 31>>,
      <<-53, 25803, 32766, 32767, 255>>, <<-53, 26589, 32766, 32767, 255>>, <<-53, 27361, 32766, 32767, 255>>,
      <<-51, 23413, 32767, 32767, 63>>, <<-53, 28857, 32766, 32767, 255>>, <<-49, 30521, 32767, 32767, 15>>,
      <<-50, 28363, 32767, 32767, 31>>, <<-53, 30993, 32766, 32767, 255>>, <<-53, 31677, 32766, 32767, 255>>,
      <<-51, 24471, 32767, 32767, 63>>, <<-53, 237, 32767, 32767, 255>>, <<-53, 881, 32767, 32767, 255>>,
      <<-53, 1513, 32767, 32767, 255>>, <<-53, 2131, 32767, 32767, 255>>, <<-52, 17753, 32767, 32767, 127>>,
      <<-53, 3333, 32767, 32767, 255>>, <<-51, 25555, 32767, 32767, 63>>, <<-53, 4487, 32767, 32767, 255>>,
      <<-53, 5047, 32767, 32767, 255>>, <<-51, 25975, 32767, 32767, 63>>, <<-52, 19451, 32767, 32767, 127>>,
      <<-53, 6661, 32767, 32767, 255>>, <<-52, 19973, 32767, 32767, 127>>, <<-53, 7685, 32767, 32767, 255>>,
      <<-52, 20475, 32767, 32767, 127>>, <<-51, 26743, 32767, 32767, 63>>, <<-52, 20957, 32767, 32767, 127>>,
      <<-53, 9613, 32767, 32767, 255>>, <<-50, 29931, 32767, 32767, 31>>, <<-53, 10521, 32767, 32767, 255>>,
      <<-52, 21865, 32767, 32767, 127>>, <<-52, 22081, 32767, 32767, 127>>, <<-53, 11817, 32767, 32767, 255>>,
      <<-50, 30201, 32767, 32767, 31>>, <<-52, 22703, 32767, 32767, 127>>, <<-53, 13037, 32767, 32767, 255>>,
      <<-51, 27933, 32767, 32767, 63>>, <<-53, 13811, 32767, 32767, 255>>, <<-52, 23477, 32767, 32767, 127>>,
      <<-52, 23661, 32767, 32767, 127>>, <<-53, 14915, 32767, 32767, 255>>, <<-51, 28393, 32767, 32767, 63>>,
      <<-53, 15615, 32767, 32767, 255>>, <<-52, 24361, 32767, 32767, 127>>, <<-53, 16287, 32767, 32767, 255>>,
      <<-52, 24691, 32767, 32767, 127>>, <<-53, 16933, 32767, 32767, 255>>, <<-53, 17247, 32767, 32767, 255>>,
      <<-52, 25161, 32767, 32767, 127>>, <<-47, 32535, 32767, 32767, 3>>, <<-53, 18151, 32767, 32767, 255>>,
      <<-50, 30977, 32767, 32767, 31>>, <<-51, 29257, 32767, 32767, 63>>, <<-52, 25885, 32767, 32767, 127>>,
      <<-53, 19275, 32767, 32767, 255>>, <<-52, 26155, 32767, 32767, 127>>, <<-51, 29527, 32767, 32767, 63>>,
      <<-51, 29591, 32767, 32767, 63>>, <<-50, 31211, 32767, 32767, 31>>, <<-53, 20559, 32767, 32767, 255>>,
      <<-53, 20801, 32767, 32767, 255>>, <<-53, 21037, 32767, 32767, 255>>, <<-52, 27019, 32767, 32767, 127>>,
      <<-53, 21497, 32767, 32767, 255>>, <<-53, 21721, 32767, 32767, 255>>, <<-53, 21939, 32767, 32767, 255>>,
      <<-52, 27461, 32767, 32767, 127>>, <<-51, 30167, 32767, 32767, 63>>, <<-52, 27669, 32767, 32767, 127>>,
      <<-51, 30269, 32767, 32767, 63>>, <<-52, 27869, 32767, 32767, 127>>, <<-51, 30367, 32767, 32767, 63>>,
      <<-52, 28061, 32767, 32767, 127>>, <<-51, 30461, 32767, 32767, 63>>, <<-53, 23723, 32767, 32767, 255>>,
      <<-52, 28335, 32767, 32767, 127>>, <<-52, 28423, 32767, 32767, 127>>, <<-52, 28509, 32767, 32767, 127>>,
      <<-53, 24419, 32767, 32767, 255>>, <<-50, 31745, 32767, 32767, 31>>, <<-52, 28757, 32767, 32767, 127>>,
      <<-53, 24905, 32767, 32767, 255>>, <<-53, 25061, 32767, 32767, 255>>, <<-53, 25213, 32767, 32767, 255>>,
      <<-53, 25363, 32767, 32767, 255>>, <<-53, 25509, 32767, 32767, 255>>, <<-53, 25653, 32767, 32767, 255>>,
      <<-52, 29281, 32767, 32767, 127>>, <<-51, 31059, 32767, 32767, 63>>, <<-53, 26067, 32767, 32767, 255>>,
      <<-50, 31947, 32767, 32767, 31>>, <<-52, 29549, 32767, 32767, 127>>, <<-52, 29613, 32767, 32767, 127>>,
      <<-53, 26583, 32767, 32767, 255>>, <<-53, 26705, 32767, 32767, 255>>, <<-53, 26825, 32767, 32767, 255>>,
      <<-53, 26943, 32767, 32767, 255>>, <<-52, 29913, 32767, 32767, 127>>, <<-53, 27171, 32767, 32767, 255>>,
      <<-52, 30025, 32767, 32767, 127>>, <<-53, 27391, 32767, 32767, 255>>, <<-53, 27497, 32767, 32767, 255>>,
      <<-52, 30185, 32767, 32767, 127>>, <<-50, 32135, 32767, 32767, 31>>, <<-51, 31527, 32767, 32767, 63>>,
      <<-52, 30335, 32767, 32767, 127>>, <<-53, 27999, 32767, 32767, 255>>, <<-53, 28093, 32767, 32767, 255>>,
      <<-52, 30477, 32767, 32767, 127>>, <<-51, 31645, 32767, 32767, 63>>, <<-53, 28365, 32767, 32767, 255>>,
      <<-53, 28453, 32767, 32767, 255>>, <<-52, 30653, 32767, 32767, 127>>, <<-52, 30695, 32767, 32767, 127>>,
      <<-48, 32641, 32767, 32767, 7>>, <<-49, 32519, 32767, 32767, 15>>, <<-53, 28863, 32767, 32767, 255>>,
      <<-53, 28941, 32767, 32767, 255>>, <<-50, 32299, 32767, 32767, 31>>, <<-53, 29091, 32767, 32767, 255>>,
      <<-53, 29163, 32767, 32767, 255>>, <<-53, 29235, 32767, 32767, 255>>, <<-53, 29305, 32767, 32767, 255>>,
      <<-53, 29373, 32767, 32767, 255>>, <<-53, 29441, 32767, 32767, 255>>, <<-52, 31137, 32767, 32767, 127>>,
      <<-53, 29571, 32767, 32767, 255>>, <<-52, 31201, 32767, 32767, 127>>, <<-43, 32765, 32767, 8191>>,
      <<-53, 29757, 32767, 32767, 255>>, <<-53, 29817, 32767, 32767, 255>>, <<-53, 29875, 32767, 32767, 255>>,
      <<-53, 29933, 32767, 32767, 255>>, <<-53, 29989, 32767, 32767, 255>>, <<-51, 32087, 32767, 32767, 63>>,
      <<-52, 31433, 32767, 32767, 127>>, <<-53, 30151, 32767, 32767, 255>>, <<-52, 31485, 32767, 32767, 127>>,
      <<-53, 30253, 32767, 32767, 255>>, <<-53, 30303, 32767, 32767, 255>>, <<-49, 32617, 32767, 32767, 15>>,
      <<-47, 32731, 32767, 32767, 3>>, <<-53, 30447, 32767, 32767, 255>>, <<-53, 30493, 32767, 32767, 255>>,
      <<-52, 31653, 32767, 32767, 127>>, <<-52, 31675, 32767, 32767, 127>>, <<-53, 30625, 32767, 32767, 255>>,
      <<-53, 30667, 32767, 32767, 255>>, <<-53, 30709, 32767, 32767, 255>>, <<-52, 31759, 32767, 32767, 127>>,
      <<-52, 31779, 32767, 32767, 127>>, <<-53, 30829, 32767, 32767, 255>>, <<-53, 30867, 32767, 32767, 255>>,
      <<-53, 30905, 32767, 32767, 255>>, <<-52, 31855, 32767, 32767, 127>>, <<-52, 31873, 32767, 32767, 127>>,
      <<-53, 31013, 32767, 32767, 255>>, <<-50, 32553, 32767, 32767, 31>>, <<-52, 31925, 32767, 32767, 127>>,
      <<-51, 32355, 32767, 32767, 63>>, <<-51, 32363, 32767, 32767, 63>>, <<-51, 32371, 32767, 32767, 63>>,
      <<-51, 32379, 32767, 32767, 63>>, <<-53, 31243, 32767, 32767, 255>>, <<-53, 31273, 32767, 32767, 255>>,
      <<-53, 31303, 32767, 32767, 255>>, <<-51, 32409, 32767, 32767, 63>>, <<-46, 32757, 32767, 32767, 1>>,
      <<-51, 32423, 32767, 32767, 63>>, <<-53, 31415, 32767, 32767, 255>>, <<-52, 32105, 32767, 32767, 127>>,
      <<-51, 32443, 32767, 32767, 63>>, <<-52, 32131, 32767, 32767, 127>>, <<-53, 31519, 32767, 32767, 255>>,
      <<-50, 32615, 32767, 32767, 31>>, <<-49, 32693, 32767, 32767, 15>>, <<-50, 32621, 32767, 32767, 31>>,
      <<-53, 31615, 32767, 32767, 255>>, <<-52, 32203, 32767, 32767, 127>>, <<-51, 32491, 32767, 32767, 63>>,
      <<-52, 32225, 32767, 32767, 127>>, <<-50, 32635, 32767, 32767, 31>>, <<-53, 31725, 32767, 32767, 255>>,
      <<-52, 32257, 32767, 32767, 127>>, <<-52, 32267, 32767, 32767, 127>>, <<-52, 32277, 32767, 32767, 127>>,
      <<-53, 31805, 32767, 32767, 255>>, <<-49, 32709, 32767, 32767, 15>>, <<-53, 31843, 32767, 32767, 255>>,
      <<-53, 31861, 32767, 32767, 255>>, <<-53, 31879, 32767, 32767, 255>>, <<-53, 31897, 32767, 32767, 255>>,
      <<-52, 32341, 32767, 32767, 127>>, <<-53, 31931, 32767, 32767, 255>>, <<-53, 31947, 32767, 32767, 255>>,
      <<-51, 32567, 32767, 32767, 63>>, <<-51, 32571, 32767, 32767, 63>>, <<-53, 31995, 32767, 32767, 255>>,
      <<-53, 32011, 32767, 32767, 255>>, <<-52, 32397, 32767, 32767, 127>>, <<-50, 32677, 32767, 32767, 31>>,
      <<-53, 32055, 32767, 32767, 255>>, <<-53, 32069, 32767, 32767, 255>>, <<-53, 32083, 32767, 32767, 255>>,
      <<-48, 32747, 32767, 32767, 7>>, <<-52, 32439, 32767, 32767, 127>>, <<-53, 32123, 32767, 32767, 255>>,
      <<-53, 32135, 32767, 32767, 255>>, <<-51, 32613, 32767, 32767, 63>>, <<-48, 32749, 32767, 32767, 7>>,
      <<-51, 32619, 32767, 32767, 63>>, <<-50, 32695, 32767, 32767, 31>>, <<-51, 32625, 32767, 32767, 63>>,
      <<-53, 32207, 32767, 32767, 255>>, <<-52, 32493, 32767, 32767, 127>>, <<-53, 32229, 32767, 32767, 255>>,
      <<-49, 32735, 32767, 32767, 15>>, <<-52, 32509, 32767, 32767, 127>>, <<-51, 32641, 32767, 32767, 63>>,
      <<-52, 32519, 32767, 32767, 127>>, <<-50, 32707, 32767, 32767, 31>>, <<-52, 32529, 32767, 32767, 127>>,
      <<-53, 32299, 32767, 32767, 255>>, <<-53, 32309, 32767, 32767, 255>>, <<-52, 32543, 32767, 32767, 127>>,
      <<-53, 32327, 32767, 32767, 255>>, <<-53, 32335, 32767, 32767, 255>>, <<-50, 32715, 32767, 32767, 31>>,
      <<-48, 32755, 32767, 32767, 7>>, <<-53, 32361, 32767, 32767, 255>>, <<-53, 32369, 32767, 32767, 255>>,
      <<-53, 32377, 32767, 32767, 255>>, <<-46, 32765, 32767, 32767, 1>>, <<-50, 32721, 32767, 32767, 31>>,
      <<-53, 32399, 32767, 32767, 255>>, <<-53, 32407, 32767, 32767, 255>>, <<-52, 32591, 32767, 32767, 127>>,
      <<-53, 32421, 32767, 32767, 255>>, <<-51, 32683, 32767, 32767, 63>>, <<-52, 32601, 32767, 32767, 127>>,
      <<-53, 32441, 32767, 32767, 255>>, <<-53, 32447, 32767, 32767, 255>>, <<-52, 32611, 32767, 32767, 127>>,
      <<-51, 32691, 32767, 32767, 63>>, <<-52, 32617, 32767, 32767, 127>>, <<-50, 32731, 32767, 32767, 31>>,
      <<-52, 32623, 32767, 32767, 127>>, <<-51, 32697, 32767, 32767, 63>>, <<-53, 32489, 32767, 32767, 255>>,
      <<-53, 32495, 32767, 32767, 255>>, <<-51, 32701, 32767, 32767, 63>>, <<-52, 32637, 32767, 32767, 127>>,
      <<-53, 32511, 32767, 32767, 255>>, <<-51, 32705, 32767, 32767, 63>>, <<-53, 32521, 32767, 32767, 255>>,
      <<-52, 32647, 32767, 32767, 127>>, <<-53, 32531, 32767, 32767, 255>>, <<-53, 32535, 32767, 32767, 255>>,
      <<-51, 32711, 32767, 32767, 63>>, <<-48, 32761, 32767, 32767, 7>>, <<-53, 32549, 32767, 32767, 255>>,
      <<-53, 32553, 32767, 32767, 255>>, <<-53, 32557, 32767, 32767, 255>>, <<-52, 32665, 32767, 32767, 127>>,
      <<-52, 32667, 32767, 32767, 127>>, <<-52, 32669, 32767, 32767, 127>>, <<-52, 32671, 32767, 32767, 127>>,
      <<-53, 32577, 32767, 32767, 255>>, <<-53, 32581, 32767, 32767, 255>>, <<-53, 32585, 32767, 32767, 255>>,
      <<-53, 32589, 32767, 32767, 255>>, <<-49, 32757, 32767, 32767, 15>>, <<-51, 32725, 32767, 32767, 63>>,
      <<-53, 32599, 32767, 32767, 255>>, <<-52, 32685, 32767, 32767, 127>>, <<-52, 32687, 32767, 32767, 127>>,
      <<-53, 32609, 32767, 32767, 255>>, <<-51, 32729, 32767, 32767, 63>>, <<-53, 32615, 32767, 32767, 255>>,
      <<-52, 32693, 32767, 32767, 127>>, <<-53, 32621, 32767, 32767, 255>>, <<-49, 32759, 32767, 32767, 15>>,
      <<-53, 32627, 32767, 32767, 255>>, <<-52, 32699, 32767, 32767, 127>>, <<-50, 32751, 32767, 32767, 31>>,
      <<-53, 32635, 32767, 32767, 255>>, <<-52, 32703, 32767, 32767, 127>>, <<-46, 32767, 32767, 32767, 1>>,
      <<-53, 32643, 32767, 32767, 255>>, <<-53, 32645, 32767, 32767, 255>>, <<-50, 32753, 32767, 32767, 31>>,
      <<-52, 32709, 32767, 32767, 127>>, <<-51, 32739, 32767, 32767, 63>>, <<-53, 32655, 32767, 32767, 255>>,
      <<-53, 32657, 32767, 32767, 255>>, <<-53, 32659, 32767, 32767, 255>>, <<-53, 32661, 32767, 32767, 255>>,
      <<-53, 32663, 32767, 32767, 255>>, <<-53, 32665, 32767, 32767, 255>>, <<-51, 32743, 32767, 32767, 63>>,
      <<-52, 32719, 32767, 32767, 127>>, <<-53, 32671, 32767, 32767, 255>>, <<-53, 32673, 32767, 32767, 255>>,
      <<-53, 32675, 32767, 32767, 255>>, <<-53, 32677, 32767, 32767, 255>>, <<-53, 32679, 32767, 32767, 255>>,
      <<-53, 32681, 32767, 32767, 255>>, <<-52, 32725, 32767, 32767, 127>>, <<-51, 32747, 32767, 32767, 63>>,
      <<-52, 32727, 32767, 32767, 127>>, <<-53, 32687, 32767, 32767, 255>>, <<-53, 32689, 32767, 32767, 255>>,
      <<-53, 32691, 32767, 32767, 255>>, <<-51, 32749, 32767, 32767, 63>>, <<-52, 32731, 32767, 32767, 127>>,
      <<-53, 32695, 32767, 32767, 255>>, <<-50, 32759, 32767, 32767, 31>>, <<-52, 32733, 32767, 32767, 127>>,
      <<-53, 32699, 32767, 32767, 255>>, <<-53, 32701, 32767, 32767, 255>>, <<-52, 32735, 32767, 32767, 127>>,
      <<-53, 32703, 32767, 32767, 255>>, <<-53, 32705, 32767, 32767, 255>>, <<-52, 32737, 32767, 32767, 127>>,
      <<-53, 32707, 32767, 32767, 255>>, <<-51, 32753, 32767, 32767, 63>>, <<-53, 32709, 32767, 32767, 255>>,
      <<-53, 32711, 32767, 32767, 255>>, <<-50, 32761, 32767, 32767, 31>>, <<-53, 32713, 32767, 32767, 255>>,
      <<-52, 32741, 32767, 32767, 127>>, <<-53, 32715, 32767, 32767, 255>>, <<-51, 32755, 32767, 32767, 63>>,
      <<-53, 32717, 32767, 32767, 255>>, <<-52, 32743, 32767, 32767, 127>>, <<-53, 32719, 32767, 32767, 255>>,
      <<-49, 32765, 32767, 32767, 15>>, <<-53, 32721, 32767, 32767, 255>>, <<-52, 32745, 32767, 32767, 127>>,
      <<-53, 32723, 32767, 32767, 255>>, <<-51, 32757, 32767, 32767, 63>>, <<-53, 32725, 32767, 32767, 255>>,
      <<-53, 32725, 32767, 32767, 255>>, <<-52, 32747, 32767, 32767, 127>>, <<-53, 32727, 32767, 32767, 255>>,
      <<-50, 32763, 32767, 32767, 31>>, <<-53, 32729, 32767, 32767, 255>>, <<-52, 32749, 32767, 32767, 127>>,
      <<-52, 32749, 32767, 32767, 127>>, <<-53, 32731, 32767, 32767, 255>>, <<-51, 32759, 32767, 32767, 63>>,
      <<-51, 32759, 32767, 32767, 63>>, <<-53, 32733, 32767, 32767, 255>>, <<-52, 32751, 32767, 32767, 127>>,
      <<-53, 32735, 32767, 32767, 255>>, <<-53, 32735, 32767, 32767, 255>>, <<-48, 32767, 32767, 32767, 7>>,
      <<-53, 32737, 32767, 32767, 255>>, <<-53, 32737, 32767, 32767, 255>>, <<-52, 32753, 32767, 32767, 127>>,
      <<-52, 32753, 32767, 32767, 127>>, <<-53, 32739, 32767, 32767, 255>>, <<-53, 32739, 32767, 32767, 255>>,
      <<-51, 32761, 32767, 32767, 63>>, <<-53, 32741, 32767, 32767, 255>>, <<-53, 32741, 32767, 32767, 255>>,
      <<-52, 32755, 32767, 32767, 127>>, <<-52, 32755, 32767, 32767, 127>>, <<-53, 32743, 32767, 32767, 255>>,
      <<-53, 32743, 32767, 32767, 255>>, <<-50, 32765, 32767, 32767, 31>>, <<-50, 32765, 32767, 32767, 31>>,
      <<-53, 32745, 32767, 32767, 255>>, <<-53, 32745, 32767, 32767, 255>>, <<-52, 32757, 32767, 32767, 127>>,
      <<-52, 32757, 32767, 32767, 127>>, <<-52, 32757, 32767, 32767, 127>>, <<-53, 32747, 32767, 32767, 255>>,
      <<-53, 32747, 32767, 32767, 255>>, <<-51, 32763, 32767, 32767, 63>>, <<-51, 32763, 32767, 32767, 63>>,
      <<-53, 32749, 32767, 32767, 255>>, <<-53, 32749, 32767, 32767, 255>>, <<-53, 32749, 32767, 32767, 255>>,
      <<-52, 32759, 32767, 32767, 127>>, <<-52, 32759, 32767, 32767, 127>>, <<-52, 32759, 32767, 32767, 127>>,
      <<-53, 32751, 32767, 32767, 255>>, <<-53, 32751, 32767, 32767, 255>>, <<-53, 32751, 32767, 32767, 255>>,
      <<-49, 32767, 32767, 32767, 15>>, <<-49, 32767, 32767, 32767, 15>>, <<-49, 32767, 32767, 32767, 15>>,
      <<-53, 32753, 32767, 32767, 255>>, <<-53, 32753, 32767, 32767, 255>>, <<-53, 32753, 32767, 32767, 255>>,
      <<-52, 32761, 32767, 32767, 127>>, <<-52, 32761, 32767, 32767, 127>>, <<-52, 32761, 32767, 32767, 127>>,
      <<-52, 32761, 32767, 32767, 127>>, <<-53, 32755, 32767, 32767, 255>>, <<-53, 32755, 32767, 32767, 255>>,
      <<-53, 32755, 32767, 32767, 255>>, <<-53, 32755, 32767, 32767, 255>>, <<-51, 32765, 32767, 32767, 63>>,
      <<-51, 32765, 32767, 32767, 63>>, <<-51, 32765, 32767, 32767, 63>>, <<-51, 32765, 32767, 32767, 63>>,
      <<-53, 32757, 32767, 32767, 255>>, <<-53, 32757, 32767, 32767, 255>>, <<-53, 32757, 32767, 32767, 255>>,
      <<-53, 32757, 32767, 32767, 255>>, <<-52, 32763, 32767, 32767, 127>>, <<-52, 32763, 32767, 32767, 127>>,
      <<-52, 32763, 32767, 32767, 127>>, <<-52, 32763, 32767, 32767, 127>>, <<-52, 32763, 32767, 32767, 127>>,
      <<-53, 32759, 32767, 32767, 255>>, <<-53, 32759, 32767, 32767, 255>>, <<-53, 32759, 32767, 32767, 255>>,
      <<-53, 32759, 32767, 32767, 255>>, <<-53, 32759, 32767, 32767, 255>>, <<-53, 32759, 32767, 32767, 255>>,
      <<-50, 32767, 32767, 32767, 31>>, <<-50, 32767, 32767, 32767, 31>>, <<-50, 32767, 32767, 32767, 31>>,
      <<-50, 32767, 32767, 32767, 31>>, <<-50, 32767, 32767, 32767, 31>>, <<-50, 32767, 32767, 32767, 31>>,
      <<-53, 32761, 32767, 32767, 255>>, <<-53, 32761, 32767, 32767, 255>>, <<-53, 32761, 32767, 32767, 255>>,
      <<-53, 32761, 32767, 32767, 255>>, <<-53, 32761, 32767, 32767, 255>>, <<-53, 32761, 32767, 32767, 255>>,
      <<-53, 32761, 32767, 32767, 255>>, <<-52, 32765, 32767, 32767, 127>>, <<-52, 32765, 32767, 32767, 127>>,
      <<-52, 32765, 32767, 32767, 127>>, <<-52, 32765, 32767, 32767, 127>>, <<-52, 32765, 32767, 32767, 127>>,
      <<-52, 32765, 32767, 32767, 127>>, <<-52, 32765, 32767, 32767, 127>>, <<-52, 32765, 32767, 32767, 127>>,
      <<-52, 32765, 32767, 32767, 127>>, <<-53, 32763, 32767, 32767, 255>>, <<-53, 32763, 32767, 32767, 255>>,
      <<-53, 32763, 32767, 32767, 255>>, <<-53, 32763, 32767, 32767, 255>>, <<-53, 32763, 32767, 32767, 255>>,
      <<-53, 32763, 32767, 32767, 255>>, <<-53, 32763, 32767, 32767, 255>>, <<-53, 32763, 32767, 32767, 255>>,
      <<-53, 32763, 32767, 32767, 255>>, <<-53, 32763, 32767, 32767, 255>>, <<-51, 32767, 32767, 32767, 63>>,
      <<-51, 32767, 32767, 32767, 63>>, <<-51, 32767, 32767, 32767, 63>>, <<-51, 32767, 32767, 32767, 63>>,
      <<-51, 32767, 32767, 32767, 63>>, <<-51, 32767, 32767, 32767, 63>>, <<-51, 32767, 32767, 32767, 63>>,
      <<-51, 32767, 32767, 32767, 63>>, <<-51, 32767, 32767, 32767, 63>>, <<-51, 32767, 32767, 32767, 63>>,
      <<-51, 32767, 32767, 32767, 63>>, <<-51, 32767, 32767, 32767, 63>>, <<-53, 32765, 32767, 32767, 255>>,
      <<-53, 32765, 32767, 32767, 255>>, <<-53, 32765, 32767, 32767, 255>>, <<-53, 32765, 32767, 32767, 255>>,
      <<-53, 32765, 32767, 32767, 255>>, <<-53, 32765, 32767, 32767, 255>>, <<-53, 32765, 32767, 32767, 255>>,
      <<-53, 32765, 32767, 32767, 255>>, <<-53, 32765, 32767, 32767, 255>>, <<-53, 32765, 32767, 32767, 255>>,
      <<-53, 32765, 32767, 32767, 255>>, <<-53, 32765, 32767, 32767, 255>>, <<-53, 32765, 32767, 32767, 255>>,
      <<-53, 32765, 32767, 32767, 255>>, <<-53, 32765, 32767, 32767, 255>>, <<-53, 32765, 32767, 32767, 255>>,
      <<-53, 32765, 32767, 32767, 255>>, <<-52, 32767, 32767, 32767, 127>>, <<-52, 32767, 32767, 32767, 127>>,
      <<-52, 32767, 32767, 32767, 127>>, <<-52, 32767, 32767, 32767, 127>>, <<-52, 32767, 32767, 32767, 127>>,
      <<-52, 32767, 32767, 32767, 127>>, <<-52, 32767, 32767, 32767, 127>>, <<-52, 32767, 32767, 32767, 127>>,
      <<-52, 32767, 32767, 32767, 127>>, <<-52, 32767, 32767, 32767, 127>>, <<-52, 32767, 32767, 32767, 127>>,
      <<-52, 32767, 32767, 32767, 127>>, <<-52, 32767, 32767, 32767, 127>>, <<-52, 32767, 32767, 32767, 127>>,
      <<-52, 32767, 32767, 32767, 127>>, <<-52, 32767, 32767, 32767, 127>>, <<-52, 32767, 32767, 32767, 127>>,
      <<-52, 32767, 32767, 32767, 127>>, <<-52, 32767, 32767, 32767, 127>>, <<-52, 32767, 32767, 32767, 127>>,
      <<-52, 32767, 32767, 32767, 127>>, <<-52, 32767, 32767, 32767, 127>>, <<-52, 32767, 32767, 32767, 127>>,
      <<-52, 32767, 32767, 32767, 127>>, <<-52, 32767, 32767, 32767, 127>>, <<-52, 32767, 32767, 32767, 127>>,
      <<-53, 32767, 32767, 32767, 255>>, <<-53, 32767, 32767, 32767, 255>>, <<-53, 32767, 32767, 32767, 255>>,
      <<-53, 32767, 32767, 32767, 255>>, <<-53, 32767, 32767, 32767, 255>>, <<-53, 32767, 32767, 32767, 255>>,
      <<-53, 32767, 32767, 32767, 255>>, <<-53, 32767, 32767, 32767, 255>>, <<-53, 32767, 32767, 32767, 255>>,
      <<-53, 32767, 32767, 32767, 255>>, <<-53, 32767, 32767, 32767, 255>>, <<-53, 32767, 32767, 32767, 255>>,
      <<-53, 32767, 32767, 32767, 255>>, <<-53, 32767, 32767, 32767, 255>>, <<-53, 32767, 32767, 32767, 255>>,
      <<-53, 32767, 32767, 32767, 255>>, <<-53, 32767, 32767, 32767, 255>>, <<-53, 32767, 32767, 32767, 255>>,
      <<-53, 32767, 32767, 32767, 255>>, <<-53, 32767, 32767, 32767, 255>>, <<-53, 32767, 32767, 32767, 255>>,
      <<-53, 32767, 32767, 32767, 255>>, <<-53, 32767, 32767, 32767, 255>>, <<-53, 32767, 32767, 32767, 255>>,
      <<-53, 32767, 32767, 32767, 255>>, <<-53, 32767, 32767, 32767, 255>>, <<-53, 32767, 32767, 32767, 255>>,
      <<-53, 32767, 32767, 32767, 255>>, <<-53, 32767, 32767, 32767, 255>>, <<-53, 32767, 32767, 32767, 255>>,
      <<-53, 32767, 32767, 32767, 255>>, <<-53, 32767, 32767, 32767, 255>>, <<-53, 32767, 32767, 32767, 255>>,
      <<-53, 32767, 32767, 32767, 255>>, <<-53, 32767, 32767, 32767, 255>>, <<-53, 32767, 32767, 32767, 255>>,
      <<-53, 32767, 32767, 32767, 255>>, <<-53, 32767, 32767, 32767, 255>>, <<-53, 32767, 32767, 32767, 255>>,
      <<-53, 32767, 32767, 32767, 255>>, <<-53, 32767, 32767, 32767, 255>>, <<-53, 32767, 32767, 32767, 255>>,
      <<-53, 32767, 32767, 32767, 255>>, <<-53, 32767, 32767, 32767, 255>>, <<-53, 32767, 32767, 32767, 255>>,
      <<-53, 32767, 32767, 32767, 255>>, <<-53, 32767, 32767, 32767, 255>>, <<-53, 32767, 32767, 32767, 255>>,
      <<-53, 32767, 32767, 32767, 255>>, <<-53, 32767, 32767, 32767, 255>>, <<-53, 32767, 32767, 32767, 255>>,
      <<-53, 32767, 32767, 32767, 255>>, <<-53, 32767, 32767, 32767, 255>>, <<-53, 32767, 32767, 32767, 255>>,
      <<-53, 32767, 32767, 32767, 255>>
   >>

\* the smallest h with tanh(h / 100) = 1.0 in f64
TanhOne == 1907

\* the divisor of the arguments of TanhTable
TanhUnit == 100

(***************************************************************************)
(* f64::tanh is the tanh of the libm of the build, which computes it from  *)
(* expm1; both are sequences of f64 operations on these constants.         *)
(***************************************************************************)
\* ln2_hi
Ln2Hi == Fin(FALSE, <<6135, 25316, 2>>, -32)

\* ln2_lo
Ln2Lo == Fin(FALSE, <<7739, 13689, 29662, 104>>, -84)

\* invln2
InvLn2 == Fin(FALSE, <<16767, 25899, 10894, 92>>, -51)

\* o_threshold
OThreshold == Fin(FALSE, <<14831, 32244, 14603, 177>>, -43)

\* Q[1]
Q1 == Fin(TRUE, <<17469, 2184, 4369, 34>>, -55)

\* Q[2]
Q2 == Fin(FALSE, <<21893, 13308, 1664, 208>>, -62)

\* Q[3]
Q3 == Fin(TRUE, <<23479, 15701, 14438, 166>>, -66)

\* Q[4]
Q4 == Fin(FALSE, <<21049, 3532, 16170, 134>>, -70)

\* Q[5]
Q5 == Fin(TRUE, <<17197, 23571, 30429, 215>>, -75)

\* the least |x| whose high word is 0x4043687A (56 * ln2)
Expm1Huge == Fin(FALSE, <<13373, 19>>, -14)

\* the least |x| whose high word is above 0x3fd62e42 (0.5 * ln2)
Expm1HalfLn2 == Fin(FALSE, <<11843, 44>>, -22)

\* the least |x| whose high word is 0x3FF0A2B2 (1.5 * ln2)
Expm1ThreeHalvesLn2 == Fin(FALSE, <<20825, 16>>, -19)

FHalf == Fin(FALSE, <<1>>, -1)

\* 2^n
FPow2(n) == Fin(FALSE, <<1>>, n)

\* (int) a: the integer part of a, for |a| below 2^31
IntOf(a0) ==
    Val(a0, [a \in Any |->
        IF a.neg THEN -BToNat(FTrunc(a)) ELSE BToNat(FTrunc(a))])

\* k added to the exponent field of y, for normal y and a normal result
ScaleExp(y, k) == [y EXCEPT !.e = @ + k]

\* expm1 on the reduced argument x with the correction term c, where the
\* argument of expm1 was k * ln2 + x + c.  The build runs the variant of
\* expm1 compiled with fused multiply-add: where the source adds to, or
\* subtracts from, a product, the two are one FFma.
Expm1Reduced(x0, c0, k) ==
    Val(<<x0, c0>>, [x \in Any, c \in Any |->
    Val(FMul(FHalf, x), [hfx \in Any |->
    Val(FMul(x, hfx), [hxs \in Any |->
    Val(FMul(hxs, hxs), [h2 \in Any |->
    Val(FFma(FMul(h2, h2), FFma(hxs, Q5, Q4),
             FFma(h2, FFma(hxs, Q3, Q2), FFma(hxs, Q1, FOne(FALSE)))),
        [r1 \in Any |->
    Val(FFma(FNeg(r1), hfx, F(3)), [t \in Any |->
    Val(FMul(hxs, FDiv(FSub(r1, t), FFma(FNeg(x), t, F(6)))), [e0 \in Any |->
        IF k = 0 THEN FSub(x, FFma(x, e0, FNeg(hxs)))
        ELSE Val(FSub(FFma(x, FSub(e0, c), FNeg(c)), hxs), [e \in Any |->
            IF k = -1 THEN FFma(FHalf, FSub(x, e), FNeg(FHalf))
            ELSE IF k = 1
            THEN (IF x.neg /\ FAbsLt(FPow2(-2), x)
                  THEN FMul(F(-2), FSub(e, FAdd(x, FHalf)))
                  ELSE FFma(F(2), FSub(x, e), FOne(FALSE)))
            ELSE IF k <= -2 \/ k > 56
            THEN FSub(ScaleExp(FSub(FOne(FALSE), FSub(e, x)), k), FOne(FALSE))
            ELSE IF k < 20
            THEN ScaleExp(FSub(FSub(FOne(FALSE), FPow2(-k)), FSub(e, x)), k)
            ELSE ScaleExp(FAdd(FSub(x, FAdd(e, FPow2(-k))), FOne(FALSE)), k)])])])])])])])])

\* expm1 on hi - lo, the argument less k * ln2 in two parts
Expm1Split(hi0, lo0, k) ==
    Val(<<hi0, lo0>>, [hi \in Any, lo \in Any |-> Val(FSub(hi, lo), [x \in Any |->
        Expm1Reduced(x, FSub(FSub(hi, x), lo), k)])])

\* the k of the argument reduction of expm1: 0 below 0.5 * ln2, where the
\* argument is not reduced, 1 or -1 below 1.5 * ln2, else the integer next to
\* x / ln2 (its product and its sum are two operations of the build, each
\* rounded)
Expm1K(x0) ==
    Val(x0, [x \in Any |->
        IF FAbsLt(x, Expm1HalfLn2) THEN 0
        ELSE IF FAbsLt(x, Expm1ThreeHalvesLn2) THEN (IF x.neg THEN -1 ELSE 1)
        ELSE IntOf(FAdd(FMul(InvLn2, x), IF x.neg THEN FNeg(FHalf) ELSE FHalf))])

\* expm1(x) of the libm.  The products of the reduction by k = 1, -1 and 0
\* are exact, so hi = x - k * ln2_hi and lo = k * ln2_lo are there the
\* x - ln2_hi and ln2_lo, the x + ln2_hi and -ln2_lo and the x and 0 of the
\* three cases; hi is one fused multiply-add.
F64Expm1(x0) ==
    Val(x0, [x \in Any |->
        IF x.kind = "nan" THEN NaN
        ELSE IF x.kind = "inf" THEN (IF x.neg THEN FOne(TRUE) ELSE x)
        ELSE IF ~x.neg /\ FAbsLt(OThreshold, x) THEN Inf(FALSE)
        ELSE IF x.neg /\ ~FAbsLt(x, Expm1Huge) THEN FOne(TRUE)
        ELSE IF FAbsLt(x, FPow2(-54)) THEN x
        ELSE Val(Expm1K(x), [k \in Any |-> Val(F(k), [t \in Any |->
                 Expm1Split(FFma(FNeg(t), Ln2Hi, x), FMul(t, Ln2Lo), k)])])])

\* x.tanh() of the libm
F64Tanh(x0) ==
    Val(x0, [x \in Any |->
        IF x.kind = "nan" THEN NaN
        ELSE IF x.kind = "inf" THEN FOne(x.neg)
        ELSE IF IsZero(x) THEN x
        ELSE IF ~FAbsLt(x, F(22)) THEN FOne(x.neg)
        ELSE IF FAbsLt(x, FPow2(-55)) THEN FMul(x, FAdd(FOne(FALSE), x))
        ELSE Val(<<~FAbsLt(x, FOne(FALSE)), FAbs(x)>>,
                 [big \in Any, ax \in Any |->
             Val(F64Expm1(FMul(IF big THEN F(2) ELSE F(-2), ax)), [t \in Any |->
             Val(FAdd(t, F(2)), [u \in Any |->
             Val(IF big THEN FSub(FOne(FALSE), FDiv(F(2), u))
                 ELSE FDiv(FNeg(t), u), [z \in Any |->
                 IF x.neg THEN FNeg(z) ELSE z])])])])])

\* the h of 1 .. TanhOne - 1 with |d / s| = h / TanhUnit exactly, whose
\* quotient in f64 is then the argument of TanhTable[h]; 0 if there is none
TanhIndex(d0, s0) ==
    Val(<<d0, s0>>, [d \in Any, s \in Any |->
        LET sd == IF d.e > s.e THEN d.e - s.e ELSE 0
            ss == IF s.e > d.e THEN s.e - d.e ELSE 0
        IN  Val(BDivMod(BMulSmall(BShl(d.m, sd), TanhUnit), BShl(s.m, ss)),
                [h \in Any |->
                IF h.r # <<>> \/ h.q = <<>> \/ BCmp(h.q, <<TanhOne>>) >= 0
                THEN 0
                ELSE BToNat(h.q)])])

\* (d / s).tanh() for f64 d and s
Tanh(d0, s0) ==
    Val(<<d0, s0>>, [d \in Any, s \in Any |-> Val(FDiv(d, s), [q \in Any |->
        Val(IF q.kind # "fin" \/ IsZero(q) \/ q.e + BBitLen(q.m) > 5
            THEN 0 ELSE TanhIndex(d, s), [h \in Any |->
            IF h = 0 THEN F64Tanh(q)
            ELSE LET t == TanhTable[h]
                 IN  Fin(q.neg, Tail(t), t[1])])])])

(***************************************************************************)
(* Integer arithmetic of the build                                         *)
(***************************************************************************)
\* the result of an operation that can panic
Ok(v) == [panic |-> FALSE, value |-> v]
Panic == [panic |-> TRUE, value |-> I(0)]

\* the exact result z of +, - or * on usize: the value if it fits, otherwise
\* a panic with overflow checks and the wrapped value without
CheckedUsize(z0) ==
    Val(z0, [z \in Any |->
        IF ZLe(I(0), z) /\ ZLe(z, UsizeMax) THEN Ok(z)
        ELSE IF overflow_checks THEN Panic
        ELSE Ok(WrapUsize(z))])

\* the same on isize
CheckedIsize(z0) ==
    Val(z0, [z \in Any |->
        IF ZLe(IsizeMin, z) /\ ZLe(z, IsizeMax) THEN Ok(z)
        ELSE IF overflow_checks THEN Panic
        ELSE Ok(WrapIsize(z))])

(***************************************************************************)
(* Choice and Weights                                                      *)
(***************************************************************************)
Choice == {"Defect", "Collab"}

\* impl From<bool> for Choice
FromBool(value) == IF value THEN "Collab" ELSE "Defect"

\* a Weights value
Weights(dd, dc0, dc1, cc) ==
    [defect_defect |-> dd, defect_collab |-> <<dc0, dc1>>, collab_collab |-> cc]

\* Weights::default()
DefaultWeights == Weights(I(2), I(3), I(0), I(1))

\* Weights::outcome with the two payoffs of (Defect, Collab) in the wrong order
OutcomeRolesSwapped(w, ch1, ch2) ==
    CASE ch1 = "Defect" /\ ch2 = "Defect" -> <<w.defect_defect, w.defect_defect>>
      [] ch1 = "Defect" /\ ch2 = "Collab" -> <<w.defect_collab[2], w.defect_collab[1]>>
      [] ch1 = "Collab" /\ ch2 = "Defect" -> <<w.defect_collab[2], w.defect_collab[1]>>
      [] ch1 = "Collab" /\ ch2 = "Collab" -> <<w.collab_collab, w.collab_collab>>

\* Weights::outcome
Outcome(w, ch1, ch2) ==
    CASE ch1 = "Defect" /\ ch2 = "Defect" -> <<w.defect_defect, w.defect_defect>>
      [] ch1 = "Defect" /\ ch2 = "Collab" -> <<w.defect_collab[1], w.defect_collab[2]>>
      [] ch1 = "Collab" /\ ch2 = "Defect" -> <<w.defect_collab[2], w.defect_collab[1]>>
      [] ch1 = "Collab" /\ ch2 = "Collab" -> <<w.collab_collab, w.collab_collab>>

\* usize::max, usize::min
ZMax(a, b) == IF ZLe(b, a) THEN a ELSE b
ZMin(a, b) == IF ZLe(a, b) THEN a ELSE b

\* Weights::max_diff as the signed difference defector - collaborator
MaxDiffSigned(w) == ZSub(w.defect_collab[1], w.defect_collab[2])

\* Weights::max_diff: the larger payoff minus the smaller never overflows
MaxDiff(w) ==
    ZSub(ZMax(w.defect_collab[1], w.defect_collab[2]),
         ZMin(w.defect_collab[1], w.defect_collab[2]))

(***************************************************************************)
(* PlayerFactory and Player                                                *)
(***************************************************************************)
\* a probability is a pair <<numerator, denominator>>
NoProb == <<0, 1>>

Factory(tag, p) == [tag |-> tag, p |-> p]

\* PlayerFactory::all
All ==
    << Factory("Defector", NoProb),
       Factory("Collaborator", NoProb),
       Factory("Random", <<5, 10>>),
       Factory("Random", <<9, 10>>),
       Factory("Random", <<1, 10>>),
       Factory("RandomFixed", <<5, 10>>),
       Factory("RandomFixed", <<9, 10>>),
       Factory("RandomFixed", <<1, 10>>),
       Factory("TitForTat", NoProb),
       Factory("TitFotTatS", NoProb),
       Factory("Mean", NoProb),
       Factory("Pavlov", NoProb),
       Factory("Grim", NoProb) >>

\* rng.gen_bool(p): the values a Bernoulli(p) draw can return
GenBool(p) ==
    IF p[1] = 0 THEN {FALSE}
    ELSE IF p[1] = p[2] THEN {TRUE}
    ELSE BOOLEAN

Player(tag, p, defected) == [tag |-> tag, p |-> p, defected |-> defected]

NoPlayer == Player("None", NoProb, FALSE)

\* PlayerFactory::gen handing out a Grim that is already triggered
GenGrimTriggered(f) ==
    CASE f.tag = "Defector" -> {Player("Defector", NoProb, FALSE)}
      [] f.tag = "Collaborator" -> {Player("Collaborator", NoProb, FALSE)}
      [] f.tag = "Random" -> {Player("Random", f.p, FALSE)}
      [] f.tag = "TitForTat" -> {Player("TitForTat", NoProb, FALSE)}
      [] f.tag = "TitFotTatS" -> {Player("TitForTat2", NoProb, FALSE)}
      [] f.tag = "RandomFixed" ->
            {IF b THEN Player("Collaborator", NoProb, FALSE)
                  ELSE Player("Defector", NoProb, FALSE) : b \in GenBool(f.p)}
      [] f.tag = "Mean" -> {Player("Mean", NoProb, FALSE)}
      [] f.tag = "Pavlov" -> {Player("Pavlov", NoProb, FALSE)}
      [] f.tag = "Grim" -> {Player("Grim", NoProb, TRUE)}

\* PlayerFactory::gen: the players the factory can produce
Gen(f) ==
    CASE f.tag = "Defector" -> {Player("Defector", NoProb, FALSE)}
      [] f.tag = "Collaborator" -> {Player("Collaborator", NoProb, FALSE)}
      [] f.tag = "Random" -> {Player("Random", f.p, FALSE)}
      [] f.tag = "TitForTat" -> {Player("TitForTat", NoProb, FALSE)}
      [] f.tag = "TitFotTatS" -> {Player("TitForTat2", NoProb, FALSE)}
      [] f.tag = "RandomFixed" ->
            {IF b THEN Player("Collaborator", NoProb, FALSE)
                  ELSE Player("Defector", NoProb, FALSE) : b \in GenBool(f.p)}
      [] f.tag = "Mean" -> {Player("Mean", NoProb, FALSE)}
      [] f.tag = "Pavlov" -> {Player("Pavlov", NoProb, FALSE)}
      [] f.tag = "Grim" -> {Player("Grim", NoProb, FALSE)}

\* slice::first / slice::last as an Option
First(h) == IF h = <<>> THEN "None" ELSE h[1]
Last(h) == IF h = <<>> THEN "None" ELSE h[Len(h)]

UnwrapOr(opt, default) == IF opt = "None" THEN default ELSE opt

RECURSIVE CountCollab(_)
CountCollab(h) ==
    IF h = <<>> THEN 0
    ELSE (IF h[1] = "Collab" THEN 1 ELSE 0) + CountCollab(Tail(h))

\* the probability Player::Mean hands to gen_bool
MeanProb(opp) == IF opp = <<>> THEN <<1, 2>> ELSE <<CountCollab(opp), Len(opp)>>

\* Player::TitForTat / Player::TitForTat2: hist.1.first().copied().unwrap_or(d)
TitForTatPlay(opp, default) == UnwrapOr(First(opp), default)

\* Player::Pavlov answering the opponent's last move only
PavlovPlayOpponentOnly(own, opp) == FromBool(Last(opp) # "Defect")

\* Player::Pavlov: (hist.0.last() == hist.1.last()).into()
PavlovPlay(own, opp) == FromBool(Last(own) = Last(opp))

\* Player::Grim without the sticky flag
GrimDefectedForgets(defected, opp) == Last(opp) = "Defect"

\* Player::Grim: the flag after the call
GrimDefected(defected, opp) == defected \/ Last(opp) = "Defect"

\* Player::play: the set of <<choice, player after the call>> the call can
\* produce; own = hist.0, opp = hist.1
PlayerPlay(self, own, opp) ==
    CASE self.tag = "Defector" -> {<<"Defect", self>>}
      [] self.tag = "Collaborator" -> {<<"Collab", self>>}
      [] self.tag = "Random" -> {<<FromBool(b), self>> : b \in GenBool(self.p)}
      [] self.tag = "TitForTat" -> {<<TitForTatPlay(opp, "Collab"), self>>}
      [] self.tag = "TitForTat2" -> {<<TitForTatPlay(opp, "Defect"), self>>}
      [] self.tag = "Mean" -> {<<FromBool(b), self>> : b \in GenBool(MeanProb(opp))}
      [] self.tag = "Pavlov" -> {<<PavlovPlay(own, opp), self>>}
      [] self.tag = "Grim" ->
            LET defected == GrimDefected(self.defected, opp)
            IN  {<<IF defected THEN "Defect" ELSE "Collab",
                   Player("Grim", NoProb, defected)>>}


(***************************************************************************)
(* EloPool                                                                 *)
(***************************************************************************)
\* usize::saturating_add_signed
SaturatingAddSigned(u, s) == ZClamp(ZAdd(u, s), I(0), UsizeMax)

\* line 277 adding correction instead of -correction
NegMissing(c) == Ok(c)

\* -correction on isize: negating isize::MIN overflows
Neg(c) == CheckedIsize(ZNeg(c))

Entry(factory, rating) == [factory |-> factory, rating |-> rating]

\* EloPool::new giving every entry a rating of 0 instead of starting_pts
NewZeroRating(w, td, starting_pts, s, k) ==
    [players |-> [i \in 1..Len(All) |-> Entry(All[i], I(0))],
     weights |-> w, turn_distr |-> td, scale |-> s, k_factor |-> k]

\* EloPool::new
New(w, td, starting_pts, s, k) ==
    [players |-> [i \in 1..Len(All) |-> Entry(All[i], starting_pts)],
     weights |-> w, turn_distr |-> td, scale |-> s, k_factor |-> k]

\* Uniform::new(low, high): the half-open range [low, high); the call panics
\* unless low < high
Uniform(low, high) == [panic |-> ~ZLt(low, high), low |-> low, high |-> high]

\* impl From<EloPoolConfig> for EloPool<Uniform<usize>>: the pool, or a panic
\* of max_turns + 1 or of Uniform::new (the pool is then never built)
FromConfig(cfg) ==
    LET high == CheckedUsize(ZAdd(cfg.max_turns, I(1)))
        td == Uniform(cfg.min_turns, high.value)
    IN  [panic |-> high.panic \/ td.panic,
         pool |-> New(cfg.weights, td, cfg.starting_pts, cfg.scale, cfg.k_factor)]

\* the configuration of the command line, with the default weights and scale
Config(starting_pts, k, min_turns, max_turns) ==
    [weights |-> DefaultWeights, starting_pts |-> starting_pts,
     scale |-> F(Scale), k_factor |-> k,
     min_turns |-> min_turns, max_turns |-> max_turns]

\* the configuration of the command line defaults, with the model's turn range
DefaultConfig == Config(I(StartingPts), F(KFactor), I(MinTurns), I(MaxTurns))

\* the state after the construction c, `done` calls of play being over: a
\* pool that is not inside a call, or the panic of the construction
InitPool(c, done) ==
    /\ players = c.pool.players
    /\ weights = c.pool.weights
    /\ turn_distr = c.pool.turn_distr
    /\ scale = c.pool.scale
    /\ k_factor = c.pool.k_factor
    /\ pc = IF c.panic THEN "panic" ELSE "idle"
    /\ steps = done
    /\ i1 = 0 /\ i2 = 0
    /\ f1 = All[1] /\ f2 = All[1]
    /\ turns = 0
    /\ p1 = NoPlayer /\ p2 = NoPlayer
    /\ hist = <<<<>>, <<>>>>
    /\ points = I(0)
    /\ outcome = NaN

\* the program of the command line defaults, built with overflow checks (the
\* profile of `cargo run`): an integer overflow would end the call in a panic
Init ==
    /\ overflow_checks = TRUE
    /\ InitPool(FromConfig(DefaultConfig), 0)

\* rng.gen_range(0..len)
GenRange(len) == 0 .. len - 1

\* EloPool::play, lines 254-258: the early return, or the draw of i1
DrawI1 ==
    /\ pc = "idle"
    /\ steps < MaxSteps
    /\ IF Len(players) < 2
       THEN /\ steps' = steps + 1
            /\ UNCHANGED <<poolVars, pc, i1, i2, matchVars>>
       ELSE /\ i1' \in GenRange(Len(players))
            /\ pc' = "draw_i2"
            /\ UNCHANGED <<poolVars, steps, i2, matchVars>>

\* line 259: the first draw of i2
DrawI2 ==
    /\ pc = "draw_i2"
    /\ i2' \in GenRange(Len(players))
    /\ pc' = "loop"
    /\ UNCHANGED <<poolVars, steps, i1, matchVars>>

\* lines 260-262 with the redraw bound to a new variable of the loop body:
\* the i2 of the loop condition never changes
RedrawShadowed ==
    /\ pc = "loop"
    /\ i1 = i2
    /\ \E j \in GenRange(Len(players)) : i2' = i2
    /\ UNCHANGED <<poolVars, pc, steps, i1, matchVars>>

\* lines 260-262: one iteration of the redraw loop
Redraw ==
    /\ pc = "loop"
    /\ i1 = i2
    /\ i2' \in GenRange(Len(players))
    /\ UNCHANGED <<poolVars, pc, steps, i1, matchVars>>

\* Uniform::sample reading the range as closed
SampleInclusive(td) == ZToInt(td.low) .. ZToInt(td.high)

\* Distribution::sample of a Uniform: the values of the half-open range
Sample(td) == ZToInt(td.low) .. ZToInt(td.high) - 1

\* lines 265-271 reached without the redraw loop of lines 260-262
SampleTurnsNoLoop ==
    /\ pc = "loop"
    /\ f1' = players[i1 + 1].factory
    /\ f2' = players[i2 + 1].factory
    /\ turns' \in Sample(turn_distr)
    /\ pc' = "gen"
    /\ UNCHANGED <<poolVars, steps, i1, i2, p1, p2, hist, points, outcome>>

\* lines 265-271: the arguments of play are evaluated, the turn count last
SampleTurns ==
    /\ pc = "loop"
    /\ i1 # i2
    /\ f1' = players[i1 + 1].factory
    /\ f2' = players[i2 + 1].factory
    /\ turns' \in Sample(turn_distr)
    /\ pc' = "gen"
    /\ UNCHANGED <<poolVars, steps, i1, i2, p1, p2, hist, points, outcome>>

\* play, lines 199-203
GenPlayers ==
    /\ pc = "gen"
    /\ points' = I(0)
    /\ hist' = <<<<>>, <<>>>>
    /\ p1' \in Gen(f1)
    /\ p2' \in Gen(f2)
    /\ pc' = "turn"
    /\ UNCHANGED <<poolVars, steps, i1, i2, f1, f2, turns, outcome>>

\* play, line 211: o1 as isize - o2 as isize; the casts wrap a payoff above
\* isize::MAX, the subtraction can overflow
Differential(o) == CheckedIsize(ZSub(WrapIsize(o[1]), WrapIsize(o[2])))

\* play, line 211: points += d
AddAssign(pts, d) == CheckedIsize(ZAdd(pts, d))

\* the turn loop with hist.0.push(m1) moved before p2.play: the second
\* player sees the first player's move of the current turn
TurnSequential ==
    /\ pc = "turn"
    /\ Len(hist[1]) < turns
    /\ \E r1 \in PlayerPlay(p1, hist[1], hist[2]) :
       \E r2 \in PlayerPlay(p2, hist[2], Append(hist[1], r1[1])) :
          LET m1 == r1[1]
              m2 == r2[1]
              d == Differential(Outcome(weights, m1, m2))
              sum == AddAssign(points, d.value)
          IN  /\ p1' = r1[2]
              /\ p2' = r2[2]
              /\ hist' = <<Append(hist[1], m1), Append(hist[2], m2)>>
              /\ IF d.panic \/ sum.panic
                 THEN points' = points /\ pc' = "panic"
                 ELSE points' = sum.value /\ pc' = "turn"
    /\ UNCHANGED <<poolVars, steps, i1, i2, f1, f2, turns, outcome>>

\* play, lines 205-212: one iteration of the turn loop; an overflow of
\* line 211 panics after the two moves were pushed
Turn ==
    /\ pc = "turn"
    /\ Len(hist[1]) < turns
    /\ \E r1 \in PlayerPlay(p1, hist[1], hist[2]) :
       \E r2 \in PlayerPlay(p2, hist[2], hist[1]) :
          LET m1 == r1[1]
              m2 == r2[1]
              d == Differential(Outcome(weights, m1, m2))
              sum == AddAssign(points, d.value)
          IN  /\ p1' = r1[2]
              /\ p2' = r2[2]
              /\ hist' = <<Append(hist[1], m1), Append(hist[2], m2)>>
              /\ IF d.panic \/ sum.panic
                 THEN points' = points /\ pc' = "panic"
                 ELSE points' = sum.value /\ pc' = "turn"
    /\ UNCHANGED <<poolVars, steps, i1, i2, f1, f2, turns, outcome>>

\* play, line 214: points as f64 / (weights.max_diff() * turns) as f64; the
\* product is a usize and can overflow
Score(pts, w, n) ==
    LET den == CheckedUsize(ZMul(MaxDiff(w), I(n)))
    IN  [panic |-> den.panic, value |-> FDiv(FromZ(pts), FromZ(den.value))]

\* play, line 214: the turn loop is over, the score is returned
Return ==
    /\ pc = "turn"
    /\ Len(hist[1]) = turns
    /\ LET s == Score(points, weights, turns)
       IN  IF s.panic
           THEN outcome' = outcome /\ pc' = "panic"
           ELSE outcome' = s.value /\ pc' = "update"
    /\ UNCHANGED <<poolVars, steps, i1, i2, f1, f2, turns, p1, p2, hist, points>>

\* line 272 using the first rating alone
RatingDiffFirstOnly == FromZ(players[i1 + 1].rating)

\* line 272: self.players[i1].1 as f64 - self.players[i2].1 as f64
RatingDiff ==
    FSub(FromZ(players[i1 + 1].rating), FromZ(players[i2 + 1].rating))

\* line 273: (rating_diff / self.scale).tanh()
Expected == Tanh(RatingDiff, scale)

\* line 274: (self.k_factor * (outcome - expected)) as isize
Correction == ToIsize(FMul(k_factor, FSub(outcome, Expected)))

\* EloPool::play, lines 272-277: the ratings are corrected; the locals of the
\* call and of the match are dropped.  An overflow of -correction panics
\* after the first rating was written.
Update ==
    /\ pc = "update"
    /\ LET correction == Correction
           r1 == SaturatingAddSigned(players[i1 + 1].rating, correction)
           after1 == [players EXCEPT ![i1 + 1].rating = r1]
           minus == Neg(correction)
       IN  IF minus.panic
           THEN /\ players' = after1
                /\ pc' = "panic"
           ELSE /\ players' = [after1 EXCEPT ![i2 + 1].rating =
                                  SaturatingAddSigned(@, minus.value)]
                /\ pc' = "idle"
    /\ steps' = steps + 1
    /\ i1' = 0 /\ i2' = 0
    /\ f1' = All[1] /\ f2' = All[1]
    /\ turns' = 0
    /\ p1' = NoPlayer /\ p2' = NoPlayer
    /\ hist' = <<<<>>, <<>>>>
    /\ points' = I(0)
    /\ outcome' = NaN
    /\ UNCHANGED <<overflow_checks, weights, turn_distr, scale, k_factor>>

Next ==
    \/ DrawI1
    \/ DrawI2
    \/ Redraw
    \/ SampleTurns
    \/ GenPlayers
    \/ Turn
    \/ Return
    \/ Update

Spec == Init /\ [][Next]_vars

\* the pool before the last call of the main loop, the calls before it
\* having been draws that left every rating at its starting value
InitLastCall ==
    /\ overflow_checks = TRUE
    /\ InitPool(FromConfig(DefaultConfig), MaxSteps - 1)

\* the calls of the main loop, each statement of a call eventually executed
\* and the random stream not repeating the index i1 forever in the redraw
\* loop (a redraw that returns the same i2 leaves the state as it was)
SpecFair == InitLastCall /\ [][Next]_vars /\ WF_vars(Next)

\* a pool whose starting rating is below the k-factor
InitLow ==
    /\ overflow_checks = TRUE
    /\ InitPool(FromConfig([DefaultConfig EXCEPT !.starting_pts = I(StartLow)]), 0)

SpecLow == InitLow /\ [][Next]_vars

\* a k-factor as large as the magnitude of isize::MIN
BigK == FromZ(ZPow2(Bits - 1))

\* a pool with that k-factor whose matches all have min_turns turns, in
\* either build
InitBigK ==
    /\ overflow_checks \in BOOLEAN
    /\ InitPool(FromConfig([DefaultConfig EXCEPT !.k_factor = BigK,
                                                !.max_turns = I(MinTurns)]), 0)

SpecBigK == InitBigK /\ [][Next]_vars

\* turn ranges the command line accepts beside the default one: a min_turns
\* of 0, an empty range (min_turns above max_turns) and a max_turns of
\* usize::MAX
TurnRanges ==
    { <<I(0), I(MinTurns)>>,
      <<I(MinTurns + 1), I(MinTurns)>>,
      <<I(0), UsizeMax>> }

\* a pool built from a configuration with one of these turn ranges, in
\* either build
InitZeroTurns ==
    /\ overflow_checks \in BOOLEAN
    /\ \E r \in TurnRanges :
          InitPool(FromConfig([DefaultConfig EXCEPT !.min_turns = r[1],
                                                    !.max_turns = r[2]]), 0)

SpecZeroTurns == InitZeroTurns /\ [][Next]_vars

(***************************************************************************)
(* A stand-alone call of play: any two factories of the catalogue, any     *)
(* Weights with payoffs up to MaxWeight, the default Weights and Weights   *)
(* with a payoff at the ends of the integer types, any turn count from 1   *)
(* to MatchMaxTurns.                                                       *)
(***************************************************************************)
Factories == {All[i] : i \in 1..Len(All)}

\* the default Weights with the defector's payoff of (Defect, Collab) at
\* isize::MAX + 1 and at usize::MAX
WideWeights ==
    { [DefaultWeights EXCEPT !.defect_collab = <<ZPow2(Bits - 1), I(0)>>],
      [DefaultWeights EXCEPT !.defect_collab = <<UsizeMax, I(0)>>] }

WeightsSet ==
    {Weights(I(dd), I(dcw), I(dcl), I(cc)) :
        dd \in 0..MaxWeight, dcw \in 0..MaxWeight, dcl \in 0..MaxWeight,
        cc \in 0..MaxWeight}
    \cup {DefaultWeights} \cup WideWeights

InitMatch ==
    LET pool == FromConfig(DefaultConfig).pool
    IN  /\ overflow_checks \in BOOLEAN
        /\ players = pool.players
        /\ weights \in WeightsSet
        /\ turn_distr = pool.turn_distr
        /\ scale = pool.scale
        /\ k_factor = pool.k_factor
        /\ pc = "gen"
        /\ steps = 0
        /\ i1 = 0 /\ i2 = 0
        /\ f1 \in Factories /\ f2 \in Factories
        /\ turns \in 1..MatchMaxTurns
        /\ p1 = NoPlayer /\ p2 = NoPlayer
        /\ hist = <<<<>>, <<>>>>
        /\ points = I(0)
        /\ outcome = NaN

NextMatch ==
    \/ GenPlayers
    \/ Turn
    \/ Return

SpecMatch == InitMatch /\ [][NextMatch]_vars

\* a stand-alone call of play under the default Weights or Weights with
\* payoffs up to MaxWeight
InitMatchNarrow == InitMatch /\ weights \notin WideWeights

SpecMatchNarrow == InitMatchNarrow /\ [][NextMatch]_vars
(***************************************************************************)
(* Properties                                                              *)
(***************************************************************************)
ZAbs(z) == Z(FALSE, z.mag)

\* a <= b for two f64 that are not NaN
FLe(a, b) ==
    LET d == FSub(a, b)
    IN  IF d.kind = "inf" THEN d.neg ELSE IsZero(d) \/ d.neg

\* a.round() as isize: the integer nearest to a, halves away from zero
RoundIsize(a) ==
    IF a.kind = "nan" THEN I(0)
    ELSE IF a.kind = "inf" \/ a.e + BBitLen(a.m) > Bits
    THEN (IF a.neg THEN IsizeMin ELSE IsizeMax)
    ELSE IF a.e >= 0 THEN ZClamp(Z(a.neg, FTrunc(a)), IsizeMin, IsizeMax)
    ELSE ZClamp(Z(a.neg, BAdd(FTrunc(a),
                              IF BBit(a.m, -a.e - 1) = 1 THEN <<1>> ELSE <<>>)),
                IsizeMin, IsizeMax)

RECURSIVE SumRatings(_)
SumRatings(ps) ==
    IF ps = <<>> THEN I(0) ELSE ZAdd(ps[1].rating, SumRatings(Tail(ps)))

\* the ratings of the two selected entries, valid while i1 and i2 are live
RatingA == players[i1 + 1].rating
RatingB == players[i2 + 1].rating

\* the correction the pending update will apply
PendingCorrection == Correction

\* a match is running or has just returned
InMatch == pc \in {"turn", "update"}

\* a match is running, has just returned or has panicked
Played == pc \in {"turn", "update", "panic"}

\* the outcome is the f64 quotient num / den
IsScore(out, num, den) == out = FDiv(F(num), F(den))

\* the arithmetic of a match of n turns under w is exact: every payoff fits
\* isize and so does max_diff * n, the largest differential of the match
Exact(w, n) ==
    /\ ZLe(w.defect_defect, IsizeMax)
    /\ ZLe(w.defect_collab[1], IsizeMax)
    /\ ZLe(w.defect_collab[2], IsizeMax)
    /\ ZLe(w.collab_collab, IsizeMax)
    /\ ZLe(ZMul(MaxDiff(w), I(n)), IsizeMax)

C1_NoClamp ==
    /\ ZLe(I(0), ZAdd(RatingA, PendingCorrection))
    /\ ZLe(ZAdd(RatingA, PendingCorrection), UsizeMax)
    /\ ZLe(I(0), ZSub(RatingB, PendingCorrection))
    /\ ZLe(ZSub(RatingB, PendingCorrection), UsizeMax)

C2_NoOverflow ==
    /\ pc # "panic"
    /\ pc = "update" => PendingCorrection # IsizeMin
    /\ \A i \in 1..Len(players) :
          ZLe(I(0), players[i].rating) /\ ZLe(players[i].rating, UsizeMax)

\* own[t] is `first` on turn 1 and the opponent's move of turn t - 1 afterwards
Mirrors(own, opp, first) ==
    \A t \in 1..Len(own) : own[t] = IF t = 1 THEN first ELSE opp[t - 1]

\* C3 as stated: TitForTat opens with Collab, TitForTatDefectFirst with
\* Defect, and on every later turn each plays the opponent's previous move.
C3_TitForTatMirrors ==
    Played =>
        /\ f1.tag = "TitForTat" => Mirrors(hist[1], hist[2], "Collab")
        /\ f2.tag = "TitForTat" => Mirrors(hist[2], hist[1], "Collab")
        /\ f1.tag = "TitFotTatS" => Mirrors(hist[1], hist[2], "Defect")
        /\ f2.tag = "TitFotTatS" => Mirrors(hist[2], hist[1], "Defect")

\* C4 as stated: after every turn |points| <= max_diff * turns played (<=
\* max_diff * turns), and with max_diff > 0 the match returns a score, which
\* lies in [-1, 1].
C4_ScoreBounded ==
    /\ Played =>
          /\ ZLe(ZAbs(points), ZMul(MaxDiff(weights), I(Len(hist[1]))))
          /\ ZLe(ZAbs(points), ZMul(MaxDiff(weights), I(turns)))
    /\ (pc = "update" /\ MaxDiff(weights) # I(0)) =>
          /\ outcome.kind = "fin"
          /\ FLe(FOne(TRUE), outcome) /\ FLe(outcome, FOne(FALSE))

\* C5 as stated: the correction is the integer nearest to
\* k_factor * (score - expected).
C5_CorrectionIsRounded ==
    (pc = "update" /\ outcome.kind = "fin") =>
        PendingCorrection = RoundIsize(FMul(k_factor, FSub(outcome, Expected)))

C7_FullExploitation ==
    (InMatch /\ weights = DefaultWeights) =>
        /\ (f1.tag = "Defector" /\ f2.tag = "Collaborator") =>
              /\ points = ZMul(MaxDiff(weights), I(Len(hist[1])))
              /\ pc = "update" => IsScore(outcome, 1, 1)
        /\ (f1.tag = "Collaborator" /\ f2.tag = "Defector") =>
              /\ points = ZNeg(ZMul(MaxDiff(weights), I(Len(hist[1]))))
              /\ pc = "update" => IsScore(outcome, -1, 1)

\* C7 witness: a three turn match Defector against Collaborator returned 1.
C7_Witness ==
    /\ pc = "update" /\ weights = DefaultWeights /\ turns = MatchMaxTurns
    /\ f1.tag = "Defector" /\ f2.tag = "Collaborator"
    /\ points = I(3 * MatchMaxTurns)
    /\ outcome = FOne(FALSE)

\* C8, for the Weights whose two defect_collab payoffs differ (for equal
\* payoffs the division by max_diff is 0 / 0 by definition): Collaborator
\* against Collaborator returns the score 0, never an undefined division
\* result and never a panic.
C8_CollabCollabZero ==
    (/\ f1.tag = "Collaborator" /\ f2.tag = "Collaborator"
     /\ MaxDiff(weights) # I(0)) =>
        /\ pc # "panic"
        /\ pc = "update" => (points = I(0) /\ IsScore(outcome, 0, 1))

\* the first n moves of h are all Collab
AllCollab(h, n) == \A s \in 1..n : h[s] = "Collab"

\* own[t] is Collab exactly when the opponent collaborated on every earlier turn
GrimRule(own, opp) ==
    \A t \in 1..Len(own) : (own[t] = "Collab") <=> AllCollab(opp, t - 1)

\* once Defect, Defect on every later turn
GrimPermanent(own) ==
    \A t \in 1..Len(own) : \A u \in t..Len(own) :
        own[t] = "Defect" => own[u] = "Defect"

PavlovRule(own, opp) ==
    \A t \in 1..Len(own) :
        own[t] = IF t = 1 THEN "Collab" ELSE FromBool(own[t - 1] = opp[t - 1])

\* C10: Pavlov plays Collab on turn 1 and on turn t >= 2 plays Collab iff
\* its own move and the opponent's move of turn t - 1 were equal.
C10_PavlovRule ==
    Played =>
        /\ f1.tag = "Pavlov" => PavlovRule(hist[1], hist[2])
        /\ f2.tag = "Pavlov" => PavlovRule(hist[2], hist[1])

\* C10 witness: Pavlov against Defector played Collab, Defect (moves
\* differed), Collab (both had defected).
C10_Witness ==
    /\ pc = "update" /\ f1.tag = "Pavlov" /\ f2.tag = "Defector"
    /\ hist[1] = <<"Collab", "Defect", "Collab">>

\* the call of EloPool::play has reached the match (the call of play)
AtMatch == pc \in {"gen", "turn", "update"}

\* C11: whenever a step reaches the match, i1 and i2 are valid indices of
\* the pool, they differ, and the two factories of the match are the ones of
\* these two entries.
C11_DistinctEntries ==
    AtMatch =>
        /\ i1 \in 0 .. Len(players) - 1
        /\ i2 \in 0 .. Len(players) - 1
        /\ i1 # i2
        /\ f1 = players[i1 + 1].factory
        /\ f2 = players[i2 + 1].factory

\* C11 witness: a match between the last and the first entry is running.
C11_Witness ==
    /\ pc = "turn" /\ i1 = Len(players) - 1 /\ i2 = 0
    /\ f1.tag = "Grim" /\ f2.tag = "Defector"
    /\ Len(hist[1]) = 1

\* C13 as stated: a configuration either builds no pool or builds one whose
\* every match has a turn count of at least 1, so play never divides by zero
\* turns (its result is never NaN).
C13_TurnCountPositive ==
    /\ AtMatch => turns >= 1
    /\ pc = "update" => outcome.kind # "nan"

\* the pair with its two components exchanged
Reverse(pair) == <<pair[2], pair[1]>>

\* C14: for the Weights of the match and every pair of choices,
\* outcome(a, b) is outcome(b, a) reversed (so, where the arithmetic is
\* exact, the differential of a played turn is the negation of the one of
\* the mirrored turn); max_diff is |dc_defector - dc_collaborator|, 3 for the
\* default weights and 0 when the two payoffs are equal.
C14_OutcomeSymmetric ==
    /\ \A a \in Choice : \A b \in Choice :
          Outcome(weights, a, b) = Reverse(Outcome(weights, b, a))
    /\ MaxDiff(weights)
          = ZAbs(ZSub(weights.defect_collab[1], weights.defect_collab[2]))
    /\ weights = DefaultWeights => MaxDiff(weights) = I(3)
    /\ weights.defect_collab[1] = weights.defect_collab[2] =>
          MaxDiff(weights) = I(0)
    /\ (InMatch /\ Len(hist[1]) = 1 /\ Exact(weights, 1)) =>
          LET o == Outcome(weights, hist[2][1], hist[1][1])
          IN  points = ZNeg(ZSub(o[1], o[2]))

\* C14 witness: a turn (Collab, Defect) was scored under weights whose
\* collaborator payoff exceeds the defector payoff.
C14_Witness ==
    /\ InMatch /\ hist = <<<<"Collab">>, <<"Defect">>>>
    /\ ZLt(weights.defect_collab[1], weights.defect_collab[2])
    /\ points = MaxDiff(weights)

\* the choices Player::play can return
Choices(self, own, opp) == {r[1] : r \in PlayerPlay(self, own, opp)}

\* C15: the two histories always have the same length; a turn t starts with
\* both of length t - 1, appends one move to each, and the move of A is one
\* A can choose from (A's history, B's history) as they were before the
\* turn, the move of B one B can choose from (B's history, A's history) as
\* they were before the turn.
C15_SimultaneousMoves ==
    /\ [](Len(hist[1]) = Len(hist[2]))
    /\ [][(pc = "turn" /\ hist' # hist) =>
            LET t == Len(hist[1]) + 1
            IN  /\ Len(hist[2]) = t - 1
                /\ Len(hist'[1]) = t /\ Len(hist'[2]) = t
                /\ SubSeq(hist'[1], 1, t - 1) = hist[1]
                /\ SubSeq(hist'[2], 1, t - 1) = hist[2]
                /\ hist'[1][t] \in Choices(p1, hist[1], hist[2])
                /\ hist'[2][t] \in Choices(p2, hist[2], hist[1])]_vars

\* C15 witness: TitForTat as B opened with Collab on the turn on which
\* the Defector A defected, and answered the defection one turn later.
C15_Witness ==
    /\ pc = "turn" /\ f1.tag = "Defector" /\ f2.tag = "TitForTat"
    /\ hist = <<<<"Defect", "Defect">>, <<"Collab", "Defect">>>>

\* all the moves of a history are the same choice
Constant(h) == \A a \in 1 .. Len(h) : \A b \in 1 .. Len(h) : h[a] = h[b]

\* the two factories and histories of the match in progress
Sides == {<<f1, p1, hist[1]>>, <<f2, p2, hist[2]>>}

\* C16: agent state lives for one match. Outside a match there are no
\* agents and no histories; a match starts with empty histories, a zero
\* point balance and two agents just produced by their factories, none of
\* them triggered, whatever the earlier matches were; Grim collaborates on
\* the first turn of every match; a RandomFixed agent is a Collaborator or
\* a Defector drawn at the start of the match and repeats that one choice
\* on every turn of it.
C16_MatchScopedAgents ==
    /\ pc \in {"idle", "draw_i2", "loop", "gen"} =>
          /\ p1 = NoPlayer /\ p2 = NoPlayer
          /\ hist = <<<<>>, <<>>>>
    /\ (pc = "turn" /\ hist[1] = <<>>) =>
          /\ hist[2] = <<>>
          /\ points = I(0)
          /\ p1 \in Gen(f1) /\ p2 \in Gen(f2)
          /\ ~p1.defected /\ ~p2.defected
    /\ InMatch =>
          \A s \in Sides :
             /\ (s[1].tag = "Grim" /\ s[3] # <<>>) => s[3][1] = "Collab"
             /\ s[1].tag = "RandomFixed" =>
                   /\ s[2].tag \in {"Collaborator", "Defector"}
                   /\ Constant(s[3])
                   /\ s[3] # <<>> =>
                         s[3][1] = (IF s[2].tag = "Collaborator"
                                    THEN "Collab" ELSE "Defect")

\* C16 witness: the first step was a two-turn match of Grim against the
\* Defector (the only match that leaves them at 684 and 716), in which Grim
\* was triggered; in the second step Grim has opened with Collab again.
C16_Witness ==
    /\ steps = 1 /\ pc = "turn"
    /\ players[13].rating = I(StartingPts - 16)
    /\ players[1].rating = I(StartingPts + 16)
    /\ f1.tag = "Grim"
    /\ hist[1] = <<"Collab">>

\* C17: every match of a step runs a turn count between min_turns and
\* max_turns, both included, and both ends can be drawn; the count is drawn
\* once the two distinct indices are fixed and before the agents exist.
C17_TurnsInRange ==
    /\ AtMatch => (MinTurns <= turns /\ turns <= MaxTurns)
    /\ Sample(turn_distr) \subseteq MinTurns .. MaxTurns
    /\ {MinTurns, MaxTurns} \subseteq Sample(turn_distr)
    /\ pc \in {"idle", "draw_i2", "loop"} => turns = 0
    /\ pc = "gen" =>
          /\ i1 # i2
          /\ p1 = NoPlayer /\ p2 = NoPlayer
          /\ hist = <<<<>>, <<>>>>

\* C17 witness: the first step ran max_turns turns (Grim against the
\* Defector, two turns), the second step has drawn min_turns and has not
\* built its agents yet.
C17_Witness ==
    /\ steps = 1 /\ pc = "gen"
    /\ players[13].rating = I(StartingPts - 16)
    /\ players[1].rating = I(StartingPts + 16)
    /\ turns = MinTurns
    /\ i1 # i2
    /\ p1 = NoPlayer

\* the strategy kinds of the pool, in order
Kinds(ps) == [i \in 1 .. Len(ps) |-> ps[i].factory]

\* the entries whose rating is not the starting one
Moved == {i \in 1 .. Len(players) : players[i].rating # I(StartingPts)}

\* C18: the pool holds one entry per catalog archetype, 13 of them in the
\* order of the catalog, all at the starting rating before the first step;
\* no step ever changes the kinds, their order, the weights, the scale, the
\* k-factor or the turn distribution, and the only ratings a step changes
\* are those of the two entries it selected, in its rating update.
C18_OnlySelectedRatingsChange ==
    /\ [](/\ Len(players) = 13
          /\ Kinds(players) = All
          /\ weights = DefaultWeights
          /\ scale = F(Scale)
          /\ k_factor = F(KFactor)
          /\ turn_distr = Uniform(I(MinTurns), I(MaxTurns + 1))
          /\ steps = 0 => Moved = {})
    /\ [][/\ Kinds(players') = Kinds(players)
          /\ <<weights, scale, k_factor, turn_distr>>' =
                <<weights, scale, k_factor, turn_distr>>
          /\ pc # "update" => players' = players
          /\ pc = "update" =>
                \A i \in 1 .. Len(players) :
                   i \notin {i1 + 1, i2 + 1} =>
                      players'[i].rating = players[i].rating]_vars

\* C18 witness: two steps are over, they selected four different entries
\* and changed the four ratings; the other nine are at the starting rating.
C18_Witness ==
    /\ pc = "idle" /\ steps = 2
    /\ Cardinality(Moved) = 4

\* C19: every call of play terminates. The pool never has fewer than two
\* entries, so the early return is never the branch taken; a call that has
\* started draws, under a fair random stream, a second index different from
\* the first, runs the turn loop until both histories hold exactly the
\* sampled number of turns, and then updates the ratings in one step that
\* ends the call; no call ends in a panic.
C19_StepTerminates ==
    /\ [](Len(players) >= 2)
    /\ [](pc # "panic")
    /\ [](pc = "update" => (Len(hist[1]) = turns /\ Len(hist[2]) = turns))
    /\ [][players' # players =>
             (pc = "update" /\ pc' = "idle" /\ steps' = steps + 1)]_vars
    /\ [][steps' # steps => (pc = "update" /\ steps' = steps + 1)]_vars
    /\ [][(pc = "loop" /\ pc' # "loop") => (pc' = "gen" /\ i1 # i2)]_vars
    /\ (pc # "idle") ~> (pc = "idle")

\* C19 witness: the call drew its second index, ran the turn loop for the
\* sampled max_turns turns, and is about to update the ratings of the two
\* neighbouring entries it selected.
C19_Witness ==
    /\ pc = "update"
    /\ i1 = i2 + 1
    /\ turns = MaxTurns
    /\ Len(hist[1]) = MaxTurns /\ Len(hist[2]) = MaxTurns

====
